---- MODULE Spec2Model ----
(***************************************************************************)
(* Model of the render / registry / lifecycle core of tinywasm/dom         *)
(* (domWasm in component_frontend.go, elementWasm.On in element_wasm.go).  *)
(*                                                                         *)
(* The host document is a pre-order list of element nodes with depths;     *)
(* every node created by the browser's parser gets a fresh handle, so a    *)
(* replaced node and its replacement are different handles with the same   *)
(* id.  Markup is a list of tokens (open tag, text, close tag) that the    *)
(* renderer produces and the document parses.                              *)
(***************************************************************************)
EXTENDS Integers, Sequences, FiniteSets, TLC

VARIABLES
    doc,                \* host document: pre-order sequence of [h, id, depth, tag]
    nextH,              \* next fresh node handle
    listeners,          \* addEventListener'ed callbacks: set of [h, type, fn]
    nextFn,             \* next fresh js.Func
    released,           \* sequence of js.Func values on which Release was called
    idCounter,          \* dom.go idCounter
    elementCache,       \* domWasm.elementCache: seq of [id, val]
    eventFuncs,         \* domWasm.eventFuncs: seq of [key, val, fn, handler]
    componentListeners, \* domWasm.componentListeners: seq of [id, keys]
    currentComponentID, \* domWasm.currentComponentID
    pendingEvents,      \* domWasm.pendingEvents: seq of [id, name, handler]
    mountedComponents,  \* domWasm.mountedComponents: seq of [id, comp]
    childrenMap,        \* domWasm.childrenMap: seq of [parentID, childIDs]
    Mounted,            \* per component instance: the flag its mount/unmount hooks set
    pview,              \* application state of component P: which children it renders
    hookLog,            \* hooks invoked and callbacks released by the last operation
    lastOp,             \* the last call: [op, parent, arg, err]
    pre,                \* history: the state in which the last call was made
    trace,              \* history: the calls made so far
    unowned,            \* history: callbacks registered while no component was current
    nops,               \* number of calls so far
    attrs,              \* Element.attrs of an element under construction: seq of [Key, Value]
    attrCalls,          \* history: the Attr calls made on that element
    keyCall,            \* the id and event name of the last key built: [id, name]
    keyParts,           \* what splitEventKey returned for that key
    stack               \* the call frames of a walk run one step at a time

vars == <<doc, nextH, listeners, nextFn, released, idCounter, elementCache,
          eventFuncs, componentListeners, currentComponentID, pendingEvents,
          mountedComponents, childrenMap, Mounted, pview, hookLog, lastOp, pre,
          trace, unowned, nops, attrs, attrCalls, keyCall, keyParts, stack>>

\* ------------------------------------------------------------------ bounds
MaxOps == 3

\* the number of Attr calls on one element
MaxAttrCalls == 3

\* the length of the ids and event names a key is built from
MaxKeyLen == 3

\* the length of the id lists and key lists in the tables of a walk
MaxListLen == 2

\* ------------------------------------------------------- generic helpers
Null == 0

Range(seq) == {seq[i] : i \in 1..Len(seq)}

\* the first of a set of indices, 0 when there is none
FirstOf(S) == IF S = {} THEN 0 ELSE CHOOSE i \in S : \A j \in S : i <= j

\* s[i] = s[last]; s = s[:last]   (the swap-remove idiom of the registry slices)
SwapRemove(seq, i) ==
    SubSeq([seq EXCEPT ![i] = seq[Len(seq)]], 1, Len(seq) - 1)

Count(seq, x) == Cardinality({i \in 1..Len(seq) : seq[i] = x})

\* ------------------------------------------------------ host document
BodyH == 1
HeadH == 2
RootH == 3

\* tags the document's parser treats as void (no children, no end tag)
VoidTags == {"img", "br", "hr", "input"}

InitDoc == << [h |-> BodyH, id |-> "", depth |-> 0, tag |-> "body"],
              [h |-> RootH, id |-> "root", depth |-> 1, tag |-> "div"] >>

\* index of the first node carrying id, 0 when there is none
DocIndexOfId(d, id) ==
    IF id = "" THEN 0 ELSE FirstOf({x \in 1..Len(d) : d[x].id = id})

DocIndexOfH(d, h) == FirstOf({x \in 1..Len(d) : d[x].h = h})

\* document.getElementById
getElementById(d, id) ==
    LET Handle(i) == IF i = 0 THEN Null ELSE d[i].h
    IN Handle(DocIndexOfId(d, id))

\* last index of the subtree rooted at index i
SubtreeEnd(d, i) ==
    LET Before(later) == IF later = {} THEN Len(d) ELSE FirstOf(later) - 1
    IN Before({j \in (i+1)..Len(d) : d[j].depth <= d[i].depth})

\* the parser: tokens -> pre-order nodes with fresh handles; the depth of a
\* node is the number of elements still open before its tag
ParseHTML(html, depth, h) ==
    LET opens == {i \in 1..Len(html) : html[i].t = "open"}
        Nth(k) == CHOOSE i \in opens : Cardinality({j \in opens : j < i}) = k - 1
        Nest(i) == Cardinality({j \in opens : j < i /\ html[j].tag \notin VoidTags})
                   - Cardinality({j \in 1..(i-1) : html[j].t = "close"})
        Node(k, i) == [h |-> h + k - 1, id |-> html[i].id, depth |-> depth + Nest(i),
                       tag |-> html[i].tag]
    IN [k \in 1..Cardinality(opens) |-> Node(k, Nth(k))]

\* node.innerHTML = html
SetInnerHTML(d, h, html, nh) ==
    LET Splice(i) == SubSeq(d, 1, i) \o ParseHTML(html, d[i].depth + 1, nh)
                     \o SubSeq(d, SubtreeEnd(d, i) + 1, Len(d))
    IN Splice(DocIndexOfH(d, h))

\* node.outerHTML = html
SetOuterHTML(d, h, html, nh) ==
    LET Splice(i) == SubSeq(d, 1, i - 1) \o ParseHTML(html, d[i].depth, nh)
                     \o SubSeq(d, SubtreeEnd(d, i) + 1, Len(d))
    IN Splice(DocIndexOfH(d, h))

\* node.insertAdjacentHTML("beforeend", html)
InsertBeforeEnd(d, h, html, nh) ==
    LET Splice(i, e) == SubSeq(d, 1, e) \o ParseHTML(html, d[i].depth + 1, nh)
                        \o SubSeq(d, e + 1, Len(d))
        At(i) == Splice(i, SubtreeEnd(d, i))
    IN At(DocIndexOfH(d, h))

\* node.remove()
RemoveNode(d, h) ==
    LET Cut(i) == SubSeq(d, 1, i - 1) \o SubSeq(d, SubtreeEnd(d, i) + 1, Len(d))
    IN Cut(DocIndexOfH(d, h))

NodeCount(html) == Cardinality({i \in 1..Len(html) : html[i].t = "open"})


\* --------------------------------------------- application components
\* The component instances of the application under analysis:
\*   P   a counter-like parent (struct embedding *Element, with Render()),
\*       its markup holds a span, a button with a click binding and the
\*       child components selected by its state pview
\*   PE  the *Element embedded in P (same id as P)
\*   A   a child that wraps an element (AsElement), binding on its root
\*   B   a child with Render(), binding on an inner button
\*   C   a raw-markup page that declares its child D through Children()
\*   D   a raw-markup counter that binds a click from its mount hook
\*   Q   a plain *Element with a binding on itself
\*   R   a component with Render() whose root element carries its own id
\*       "dynamic"; its markup holds a button with a binding and no id, a
\*       void element that was given children anyway, and the child
\*       component F
\*   F   a struct embedding a form element (AsElement) that also has Render()
\*   N   a child of R with Render() whose markup holds the child component G
\*       and whose Children() returns G
\*   G   a child that wraps a void element (AsElement), binding on it
\*   H   a raw-markup host whose markup is the string of an element tree
\*       with a void element; its mount hook renders Q into its own node
\*       and then binds a click on that node
Objs == {"P", "PE", "A", "B", "C", "D", "Q", "R", "F", "H", "N", "G"}

NoObj == "nil"

ObjID(o) ==
    CASE o = "P" -> "P" [] o = "PE" -> "P" [] o = "A" -> "A" [] o = "B" -> "B"
      [] o = "C" -> "C" [] o = "D" -> "D" [] o = "Q" -> "Q"
      [] o = "R" -> "R" [] o = "F" -> "F" [] o = "H" -> "H"
      [] o = "N" -> "N" [] o = "G" -> "G"

\* dynamic type tests  component.(ViewRenderer) / .(elementNode) / .(*Element)
IsViewRenderer(o) == o \in {"P", "B", "R", "F", "N"}
IsElementNode(o)  == o \in {"A", "F", "G"}
IsElement(o)      == o \in {"PE", "Q"}
IsMountable(o)    == o \in {"P", "A", "B", "C", "D", "F", "H", "G"}
IsUnmountable(o)  == o \in {"P", "A", "B", "C", "D", "F", "G"}
IsUpdatable(o)    == o \in {"P", "C"}

\* the child lists P's Render() can produce
PViews == << <<"A", "B", "C">>, <<"A", "C">>, <<>> >>

El(tag, id, events, children, void) ==
    [tag |-> tag, id |-> id, events |-> events, children |-> children, void |-> void]

ElChild(e)   == [k |-> "el", el |-> e]
TextChild(v) == [k |-> "text", v |-> v]
CompChild(o) == [k |-> "comp", c |-> o]

Ev(name, handler) == [Name |-> name, Handler |-> handler]

\* vr.Render() of the ViewRenderer components
ViewRender(s, o) ==
    CASE o = "P" ->
        El("div", "", <<>>,
           << ElChild(El("span", "P-val", <<>>, <<TextChild("count")>>, FALSE)),
              ElChild(El("button", "P-btn", <<Ev("click", "inc")>>, <<TextChild("+")>>, FALSE)) >>
           \o [i \in 1..Len(PViews[s.pview]) |-> CompChild(PViews[s.pview][i])],
           FALSE)
      [] o = "B" ->
        El("div", "B", <<>>,
           << ElChild(El("button", "B-btn", <<Ev("click", "noop")>>, <<>>, FALSE)) >>,
           FALSE)
      [] o = "R" ->
        El("div", "dynamic", <<>>,
           << ElChild(El("button", "", <<Ev("click", "noop")>>, <<TextChild("Go")>>, FALSE)),
              ElChild(El("hr", "", <<>>,
                         << ElChild(El("span", "R-never", <<Ev("click", "noop")>>,
                                       <<>>, FALSE)),
                            CompChild("A") >>,
                         TRUE)),
              CompChild("F"),
              CompChild("N") >>,
           FALSE)
      [] o = "N" ->
        El("div", "N", <<>>, << CompChild("G") >>, FALSE)
      [] o = "F" ->
        El("div", "", <<>>,
           << ElChild(El("form", "F-form", <<Ev("submit", "noop")>>, <<>>, FALSE)) >>,
           FALSE)

\* en.AsElement() of an elementNode, or the *Element itself
AsElement(o) ==
    CASE o = "A"  -> El("form", "A", <<Ev("submit", "noop")>>, <<>>, FALSE)
      [] o = "PE" -> El("div", "P", <<>>, <<>>, FALSE)
      [] o = "F"  -> El("form", "F", <<Ev("submit", "noop")>>, <<>>, FALSE)
      [] o = "G"  -> El("input", "G", <<Ev("input", "noop")>>, <<>>, TRUE)
      [] o = "Q"  -> El("button", "Q", <<Ev("click", "noop")>>, <<TextChild("Click")>>, FALSE)

Open(tag, id) == [t |-> "open", tag |-> tag, id |-> id]
Close(tag)    == [t |-> "close", tag |-> tag]
Text(v)       == [t |-> "text", v |-> v]

\* the element tree H builds its markup from: a div holding a void element
\* that was given a child anyway
HElement ==
    El("div", "H", <<>>,
       << ElChild(El("br", "", <<>>, <<TextChild("never")>>, TRUE)) >>, FALSE)

RECURSIVE elementToHTML(_)
RECURSIVE ChildrenToHTML(_)
RECURSIVE RenderHTML(_)

\* variant: the void flag is ignored
elementToHTML_NoVoid(el) ==
    << Open(el.tag, el.id) >> \o ChildrenToHTML(el.children) \o << Close(el.tag) >>

\* elementToHTML(el), the markup string of an element outside the driver
elementToHTML(el) ==
    IF el.void THEN << Open(el.tag, el.id) >>
    ELSE << Open(el.tag, el.id) >> \o ChildrenToHTML(el.children) \o << Close(el.tag) >>

\* the loop over el.children in elementToHTML
ChildrenToHTML(children) ==
    IF children = <<>> THEN <<>>
    ELSE (IF Head(children).k = "el" THEN elementToHTML(Head(children).el)
          ELSE IF Head(children).k = "text" THEN << Text(Head(children).v) >>
          ELSE RenderHTML(Head(children).c))
         \o ChildrenToHTML(Tail(children))

\* component.RenderHTML() of the raw-markup components; H returns the markup
\* string of its element tree
RenderHTML(o) ==
    CASE o = "D" -> << Open("div", "D"), Open("button", "D-btn"), Close("button"), Close("div") >>
      [] o = "H" -> elementToHTML(HElement)
      [] o = "C" -> << Open("div", "C"), Open("div", "D"), Open("button", "D-btn"),
                       Close("button"), Close("div"), Close("div") >>
      [] OTHER -> <<>>

\* c.Children()
Children(o) == IF o = "C" THEN <<"D">> ELSE IF o = "N" THEN <<"G">> ELSE <<>>

\* ------------------------------------------------------ registry core
\* A string that takes part in a key is a sequence of characters; a run of
\* characters other than ':' is kept as one token.
\* e.id + "::" + eventType on such strings
KeyString(id, eventType) == id \o <<":", ":">> \o eventType

\* the key of an id and an event name that hold no ':' (all of the universe)
EventKey(id, eventType) == KeyString(<<id>>, <<eventType>>)

\* the string a token sequence stands for when it is a single token
Str(cs) == IF Len(cs) = 1 THEN cs[1] ELSE cs

\* d.splitEventKey(key): the parts before and after the first "::", or nil
splitEventKey(key) ==
    LET Cut(i) == IF i = 0 THEN <<>>
                  ELSE << SubSeq(key, 1, i - 1), SubSeq(key, i + 2, Len(key)) >>
    IN Cut(FirstOf({i \in 1..(Len(key) - 1) : key[i] = ":" /\ key[i + 1] = ":"}))

Log(s, entry) == [s EXCEPT !.hookLog = Append(@, entry)]

\* d.getElement(id)
getElement(s, id) ==
    CASE id = "body" -> BodyH
      [] id = "head" -> HeadH
      [] OTHER -> getElementById(s.doc, id)

\* variant: a lookup that finds no node is cached as well
Get_CachesMiss(s, id) ==
    LET Miss(val) ==
          [s |-> [s EXCEPT !.elementCache = Append(@, [id |-> id, val |-> val])],
           val |-> val, ok |-> val # Null]
        Look(ci) ==
          IF ci # 0 THEN [s |-> s, val |-> s.elementCache[ci].val,
                          ok |-> s.elementCache[ci].val # Null]
          ELSE Miss(getElement(s, id))
    IN Look(FirstOf({x \in 1..Len(s.elementCache) : s.elementCache[x].id = id}))


\* d.Get(id): result [s, val, ok]
Get(s, id) ==
    LET Miss(val) ==
          IF val = Null THEN [s |-> s, val |-> Null, ok |-> FALSE]
          ELSE [s |-> [s EXCEPT !.elementCache = Append(@, [id |-> id, val |-> val])],
                val |-> val, ok |-> TRUE]
        Look(ci) ==
          IF ci # 0 THEN [s |-> s, val |-> s.elementCache[ci].val, ok |-> TRUE]
          ELSE Miss(getElement(s, id))
    IN Look(FirstOf({x \in 1..Len(s.elementCache) : s.elementCache[x].id = id}))

\* (e *elementWasm).On(eventType, handler) for e = {val, dom, id}
On(s, val, id, eventType, handler) ==
    LET eventKey == EventKey(id, eventType)
        fn == s.nextFn
        compID == s.currentComponentID
        Attribute(s1, li) ==
          IF compID = "" THEN s1
          ELSE IF li # 0
               THEN [s1 EXCEPT !.componentListeners[li].keys = Append(@, eventKey)]
               ELSE [s1 EXCEPT !.componentListeners =
                                   Append(@, [id |-> compID, keys |-> <<eventKey>>])]
    IN Attribute([s EXCEPT !.nextFn = @ + 1,
                           !.listeners = @ \cup {[h |-> val, type |-> eventType, fn |-> fn]},
                           !.eventFuncs = Append(@, [key |-> eventKey, val |-> val,
                                                     fn |-> fn, handler |-> handler])],
                 FirstOf({x \in 1..Len(s.componentListeners) :
                             s.componentListeners[x].id = compID}))

\* the inner loop of cleanupListeners: release and drop every eventFuncs
\* entry whose key is key, scanning from index i with swap-remove
RECURSIVE ReleaseKey(_, _, _)
ReleaseKey(s, key, i) ==
    IF i > Len(s.eventFuncs) THEN s
    ELSE LET ef == s.eventFuncs[i] IN
         IF ef.key = key THEN
             LET parts == splitEventKey(key)
                 s1 == IF Len(parts) = 2 /\ ef.val # Null
                       THEN [s EXCEPT !.listeners =
                                @ \ {[h |-> ef.val, type |-> Str(parts[2]), fn |-> ef.fn]}]
                       ELSE s
                 s2 == [s1 EXCEPT !.released = Append(@, ef.fn),
                                  !.hookLog = Append(@, <<"release", key[1]>>),
                                  !.eventFuncs = SwapRemove(@, i)]
             IN ReleaseKey(s2, key, i)
         ELSE ReleaseKey(s, key, i + 1)

RECURSIVE ReleaseKeys(_, _)
ReleaseKeys(s, keys) ==
    IF keys = <<>> THEN s
    ELSE ReleaseKeys(ReleaseKey(s, Head(keys), 1), Tail(keys))

\* d.cleanupListeners(id)
cleanupListeners(s, id) ==
    LET Clean(compIndex) ==
          IF compIndex = 0 THEN s
          ELSE [ReleaseKeys(s, s.componentListeners[compIndex].keys)
                    EXCEPT !.componentListeners = SwapRemove(@, compIndex)]
    IN Clean(FirstOf({x \in 1..Len(s.componentListeners) : s.componentListeners[x].id = id}))

\* variant: the component is appended without the scan for its id
trackComponent_Always(s, c) ==
    [s EXCEPT !.mountedComponents = Append(@, [id |-> ObjID(c), comp |-> c])]

\* d.trackComponent(c)
trackComponent(s, c) ==
    LET Track(id) ==
          IF \E i \in 1..Len(s.mountedComponents) : s.mountedComponents[i].id = id
          THEN s
          ELSE [s EXCEPT !.mountedComponents = Append(@, [id |-> id, comp |-> c])]
    IN Track(ObjID(c))

\* variant: the mounted table keeps the entry
untrackComponent_Keep(s, id) == s

\* d.untrackComponent(id)
untrackComponent(s, id) ==
    LET Drop(i) == IF i = 0 THEN s ELSE [s EXCEPT !.mountedComponents = SwapRemove(@, i)]
    IN Drop(FirstOf({x \in 1..Len(s.mountedComponents) : s.mountedComponents[x].id = id}))

RECURSIVE TrackAll(_, _)
TrackAll(s, children) ==
    IF children = <<>> THEN s
    ELSE TrackAll(trackComponent(s, Head(children)), Tail(children))

\* variant: the entry is appended without the search for the parent
trackChildren_Append(s, parentID, children) ==
    LET File(s1, childIDs) ==
          [s1 EXCEPT !.childrenMap =
                        Append(@, [parentID |-> parentID, childIDs |-> childIDs])]
    IN File(TrackAll(s, children), [i \in 1..Len(children) |-> ObjID(children[i])])

\* d.trackChildren(parentID, children)
trackChildren(s, parentID, children) ==
    LET File(s1, childIDs, ci) ==
          IF ci # 0
          THEN [s1 EXCEPT !.childrenMap[ci].childIDs = childIDs]
          ELSE [s1 EXCEPT !.childrenMap =
                             Append(@, [parentID |-> parentID, childIDs |-> childIDs])]
        Find(s1) ==
          File(s1, [i \in 1..Len(children) |-> ObjID(children[i])],
               FirstOf({x \in 1..Len(s1.childrenMap) : s1.childrenMap[x].parentID = parentID}))
    IN Find(TrackAll(s, children))

\* variant: the cache entry of a replaced node is kept
removeFromElementCache_Keep(s, id) == s

\* variant: when the id is not found the last entry is removed
removeFromElementCache_Last(s, id) ==
    LET Drop(i) == IF i = 0 THEN [s EXCEPT !.elementCache = SubSeq(@, 1, Len(@) - 1)]
                   ELSE [s EXCEPT !.elementCache = SwapRemove(@, i)]
    IN Drop(FirstOf({x \in 1..Len(s.elementCache) : s.elementCache[x].id = id}))

\* d.removeFromElementCache(id)
removeFromElementCache(s, id) ==
    LET Drop(i) == IF i = 0 THEN s ELSE [s EXCEPT !.elementCache = SwapRemove(@, i)]
    IN Drop(FirstOf({x \in 1..Len(s.elementCache) : s.elementCache[x].id = id}))

RECURSIVE WireEvents(_, _)
WireEvents(s, pes) ==
    IF pes = <<>> THEN s
    ELSE LET pe == Head(pes)
             Wire(g) ==
               IF g.ok
               THEN WireEvents([On([g.s EXCEPT !.currentComponentID = pe.id],
                                   g.val, pe.id, pe.name, pe.handler)
                                   EXCEPT !.currentComponentID = g.s.currentComponentID],
                               Tail(pes))
               ELSE WireEvents(g.s, Tail(pes))
         IN Wire(Get(s, pe.id))

\* d.wirePendingEvents()
wirePendingEvents(s) ==
    [WireEvents(s, s.pendingEvents) EXCEPT !.pendingEvents = <<>>]


\* ----------------------------------------------------- markup renderer
\* variant: the generated id is the empty string
generateID_Empty(s) == [s |-> [s EXCEPT !.idCounter = @ + 1], id |-> ""]

\* generateID(): result [s, id]
generateID(s) ==
    [s |-> [s EXCEPT !.idCounter = @ + 1], id |-> ToString(s.idCounter + 1)]

\* injectComponentID(el, id): the root of a rendered view gets the
\* component's id if it has none
injectComponentID(root, id) == IF root.id = "" THEN [root EXCEPT !.id = id] ELSE root

RECURSIVE AddPending(_, _, _)
AddPending(s, id, events) ==
    IF events = <<>> THEN s
    ELSE AddPending([s EXCEPT !.pendingEvents =
                         Append(@, [id |-> id, name |-> Head(events).Name,
                                    handler |-> Head(events).Handler])],
                    id, Tail(events))

RECURSIVE renderToHTML(_, _, _)
RECURSIVE RenderChildren(_, _, _)

\* d.renderToHTML(el, comps): result [s, html, comps]
renderToHTML(s, el, comps) ==
    LET Wrap(hd, r) ==
          [html |-> hd \o r.html \o << Close(el.tag) >>, s |-> r.s, comps |-> r.comps]
        Emit(s1, hd) ==
          IF el.void THEN [html |-> hd, s |-> s1, comps |-> comps]
          ELSE Wrap(hd, RenderChildren(s1, el.children, comps))
        Tag(g) == Emit(AddPending(g.s, g.id, el.events), << Open(el.tag, g.id) >>)
    IN Tag(IF Len(el.events) > 0 /\ el.id = "" THEN generateID(s)
           ELSE [s |-> s, id |-> el.id])

\* the loop over el.children in renderToHTML
RenderChildren(s, children, comps) ==
    IF children = <<>> THEN [s |-> s, html |-> <<>>, comps |-> comps]
    ELSE LET child == Head(children)
             Join(one, rest) ==
               [html |-> one.html \o rest.html, s |-> rest.s, comps |-> rest.comps]
             Then(one) == Join(one, RenderChildren(one.s, Tail(children), one.comps))
         IN Then(IF child.k = "el" THEN renderToHTML(s, child.el, comps)
                 ELSE IF child.k = "text"
                      THEN [s |-> s, html |-> << Text(child.v) >>, comps |-> comps]
                 ELSE IF IsElementNode(child.c)
                      THEN renderToHTML(s, AsElement(child.c), Append(comps, child.c))
                 ELSE IF IsViewRenderer(child.c)
                      THEN renderToHTML(s, ViewRender(s, child.c), Append(comps, child.c))
                 ELSE [s |-> s, html |-> RenderHTML(child.c),
                       comps |-> Append(comps, child.c)])

\* the capability switch at the head of Render, Update and Append:
\* result [s, html, comps]
RenderRoot(s, component, id) ==
    IF IsViewRenderer(component)
    THEN renderToHTML(s, injectComponentID(ViewRender(s, component), id), <<>>)
    ELSE IF IsElementNode(component) \/ IsElement(component)
    THEN renderToHTML(s, AsElement(component), <<>>)
    ELSE [s |-> s, html |-> RenderHTML(component), comps |-> <<>>]

\* ------------------------------------------------- application hooks
\* history: the value of the current-component marker seen by component o
Mark(s, o) == Log(s, <<"marker", o, s.currentComponentID>>)

\* entry of a mount hook: the component notes that it is mounted
MountLog(s, o) == Mark(Log([s EXCEPT !.Mounted[o] = TRUE], <<"mount", o>>), o)

\* el, ok := dom.Get(id); if ok { el.On("click", h) }  inside a hook
BindClick(g, id) == IF g.ok THEN On(g.s, g.val, id, "click", "noop") ELSE g.s

OnUnmount(s, o) == Log([s EXCEPT !.Mounted[o] = FALSE], <<"unmount", o>>)

\* variant: the update hook is invoked a second time
OnUpdate_Twice(s, o) == Log(Log(s, <<"update", o>>), <<"update", o>>)

OnUpdate(s, o) == Log(s, <<"update", o>>)

\* ---------------------------------------------------- lifecycle driver
RECURSIVE unmountRecursive(_, _)
RECURSIVE UnmountAll(_, _)
RECURSIVE CleanupIDs(_, _)

\* the loop over childIDs shared by unmountRecursive and cleanupChildren
CleanupIDs(s, childIDs) ==
    IF childIDs = <<>> THEN s
    ELSE LET childID == Head(childIDs)
             Child(mi) ==
               IF mi # 0
               THEN CleanupIDs(unmountRecursive(
                                   [s EXCEPT !.mountedComponents = SwapRemove(@, mi)],
                                   s.mountedComponents[mi].comp),
                               Tail(childIDs))
               ELSE CleanupIDs(cleanupListeners(s, childID), Tail(childIDs))
         IN Child(FirstOf({x \in 1..Len(s.mountedComponents) :
                              s.mountedComponents[x].id = childID}))

\* d.cleanupChildren(parentID)
cleanupChildren(s, parentID) ==
    LET Clean(ci) ==
          IF ci = 0 THEN s
          ELSE CleanupIDs([s EXCEPT !.childrenMap = SwapRemove(@, ci)],
                          s.childrenMap[ci].childIDs)
    IN Clean(FirstOf({x \in 1..Len(s.childrenMap) : s.childrenMap[x].parentID = parentID}))

\* variant: the component's own hook and listeners are cleaned up before
\* its children
unmountRecursive_SelfFirst(s, c) ==
    LET Hook(t) == IF IsUnmountable(c) THEN OnUnmount(t, c) ELSE t
        s1 == cleanupListeners(Hook(s), ObjID(c))
        s2 == UnmountAll(s1, Children(c))
        s3 == cleanupChildren(s2, ObjID(c))
    IN untrackComponent(s3, ObjID(c))

\* d.unmountRecursive(c)
unmountRecursive(s, c) ==
    LET Hook(t) == IF IsUnmountable(c) THEN OnUnmount(t, c) ELSE t
        s1 == UnmountAll(s, Children(c))
        s2 == cleanupChildren(s1, ObjID(c))
        s3 == Hook(s2)
        s4 == cleanupListeners(s3, ObjID(c))
    IN untrackComponent(s4, ObjID(c))

UnmountAll(s, cs) ==
    IF cs = <<>> THEN s ELSE UnmountAll(unmountRecursive(s, Head(cs)), Tail(cs))

\* the result of a driver call: the new state and the returned error
Ret(s, err) == [s |-> s, err |-> err]

\* the result of the part of Render, Update or Append that precedes the
\* mount loop:
\* the new state, the error, and the collected child components
Prepared(s, err, comps) == [s |-> s, err |-> err, comps |-> comps]

\* variant: the component is tracked before the parent is resolved
RenderPrepare_TrackFirst(s, parentID, component) ==
    LET SetHTML(t, parent, html) ==
          [t EXCEPT !.doc = SetInnerHTML(@, parent, html, t.nextH),
                    !.nextH = @ + NodeCount(html)]
        Wire(t) ==
          [wirePendingEvents([t EXCEPT !.currentComponentID = ObjID(component)])
              EXCEPT !.currentComponentID = t.currentComponentID]
        Place(r, s0, parent) ==
          IF parent = Null THEN Prepared(s0, "parent element not found", <<>>)
          ELSE LET s1 == cleanupChildren(s0, parentID)
                   s2 == SetHTML(s1, parent, r.html)
                   s4 == trackChildren(s2, ObjID(component), r.comps)
               IN Prepared(Wire(s4), "", r.comps)
        Resolve(r) == Place(r, trackComponent(r.s, component), getElement(r.s, parentID))
    IN Resolve(RenderRoot(s, component, ObjID(component)))

\* d.Render(parentID, component) up to the mount loop: serialize, resolve
\* the parent, clean up, inject, track, wire
RenderPrepare(s, parentID, component) ==
    LET SetHTML(t, parent, html) ==
          [t EXCEPT !.doc = SetInnerHTML(@, parent, html, t.nextH),
                    !.nextH = @ + NodeCount(html)]
        Wire(t) ==
          [wirePendingEvents([t EXCEPT !.currentComponentID = ObjID(component)])
              EXCEPT !.currentComponentID = t.currentComponentID]
        Place(r, parent) ==
          IF parent = Null THEN Prepared(r.s, "parent element not found", <<>>)
          ELSE LET s1 == cleanupChildren(r.s, parentID)
                   s2 == SetHTML(s1, parent, r.html)
                   s3 == trackComponent(s2, component)
                   s4 == trackChildren(s3, ObjID(component), r.comps)
               IN Prepared(Wire(s4), "", r.comps)
        Resolve(r) == Place(r, getElement(r.s, parentID))
    IN Resolve(RenderRoot(s, component, ObjID(component)))

RECURSIVE Render(_, _, _)
RECURSIVE OnMount(_, _)
RECURSIVE mountRecursive(_, _)
RECURSIVE MountAll(_, _)
RECURSIVE MountPhase(_, _)

\* OnMount of the components that have one: D binds a click on its button;
\* H renders Q into its own node, then binds a click on that node
OnMount(s, o) ==
    CASE o = "D" -> BindClick(Get(MountLog(s, o), "D-btn"), "D-btn")
      [] o = "H" -> BindClick(Get(Mark(Render(MountLog(s, o), "H", "Q").s, o), "H"), "H")
      [] OTHER   -> MountLog(s, o)

\* variant: mountRecursive leaves the marker as its callees left it
mountRecursive_NoRestore(s, c) ==
    Mark(MountAll(IF IsMountable(c)
                  THEN OnMount([s EXCEPT !.currentComponentID = ObjID(c)], c)
                  ELSE [s EXCEPT !.currentComponentID = ObjID(c)],
                  Children(c)),
         c)

\* d.mountRecursive(c)
mountRecursive(s, c) ==
    [Mark(MountAll(IF IsMountable(c)
                   THEN OnMount([s EXCEPT !.currentComponentID = ObjID(c)], c)
                   ELSE [s EXCEPT !.currentComponentID = ObjID(c)],
                   Children(c)),
          c)
        EXCEPT !.currentComponentID = s.currentComponentID]

MountAll(s, cs) ==
    IF cs = <<>> THEN s ELSE MountAll(mountRecursive(s, Head(cs)), Tail(cs))

\* the mount loop at the end of Render and Append: the component, then the
\* collected children
MountPhase(p, component) ==
    IF p.err # "" THEN Ret(p.s, p.err)
    ELSE Ret(MountAll(mountRecursive(p.s, component), p.comps), "")

\* d.Render(parentID, component)
Render(s, parentID, component) ==
    MountPhase(RenderPrepare(s, parentID, component), component)

\* variant: Update works on the value it was handed
ResolveTracked_Given(s, component) == component

\* the loop at the head of Update that resolves the tracked instance
ResolveTracked(s, component) ==
    LET Pick(mi) == IF mi # 0 THEN s.mountedComponents[mi].comp ELSE component
    IN Pick(FirstOf({x \in 1..Len(s.mountedComponents) :
                        s.mountedComponents[x].id = ObjID(component)}))

\* d.Update(component)
Update(s, comp0) ==
    LET SetHTML(t, elRaw, html) ==
          [t EXCEPT !.doc = SetOuterHTML(@, elRaw, html, t.nextH),
                    !.nextH = @ + NodeCount(html)]
        Hook(t, component) == IF IsUpdatable(component) THEN OnUpdate(t, component) ELSE t
        Wire(t, id, component) ==
          [Hook(wirePendingEvents([t EXCEPT !.currentComponentID = id]), component)
              EXCEPT !.currentComponentID = t.currentComponentID]
        Replace(r, id, component, elRaw) ==
          IF elRaw = Null THEN Prepared(r.s, "component element not found", <<>>)
          ELSE LET s3 == SetHTML(r.s, elRaw, r.html)
                   s4 == removeFromElementCache(s3, id)
                   s5 == trackChildren(s4, id, r.comps)
               IN Prepared(Wire(s5, id, component), "", r.comps)
        Mount(p) == IF p.err # "" THEN Ret(p.s, p.err) ELSE Ret(MountAll(p.s, p.comps), "")
        Found(r, id, component) == Replace(r, id, component, getElementById(r.s.doc, id))
        Tracked(id, component) ==
          Found(RenderRoot(cleanupListeners(cleanupChildren(s, id), id), component, id),
                id, component)
    IN Mount(Tracked(ObjID(comp0), ResolveTracked(s, comp0)))

\* d.Append(parentID, component)
AppendComp(s, parentID, component) ==
    LET AddHTML(t, parent, html) ==
          [t EXCEPT !.doc = InsertBeforeEnd(@, parent, html, t.nextH),
                    !.nextH = @ + NodeCount(html)]
        Wire(t) ==
          [wirePendingEvents([t EXCEPT !.currentComponentID = ObjID(component)])
              EXCEPT !.currentComponentID = t.currentComponentID]
        Place(r, parent) ==
          IF parent = Null THEN Prepared(r.s, "parent element not found", <<>>)
          ELSE LET s2 == AddHTML(r.s, parent, r.html)
                   s3 == trackComponent(s2, component)
                   s4 == trackChildren(s3, ObjID(component), r.comps)
               IN Prepared(Wire(s4), "", r.comps)
        Resolve(r) == Place(r, getElement(r.s, parentID))
    IN MountPhase(Resolve(RenderRoot(s, component, ObjID(component))), component)

\* d.unmount(component)
unmount(s, component) ==
    LET Detach(t, el) == IF el # Null THEN [t EXCEPT !.doc = RemoveNode(@, el)] ELSE t
        Remove(t, id) == Detach(t, getElementById(t.doc, id))
        Forget(id) ==
          untrackComponent(
              removeFromElementCache(Remove(unmountRecursive(s, component), id), id), id)
    IN Ret(Forget(ObjID(component)), "")


\* ------------------------------------------------------- state machine
\* the state the driver operators work on
St == [doc |-> doc, nextH |-> nextH, listeners |-> listeners, nextFn |-> nextFn,
       released |-> released, idCounter |-> idCounter, elementCache |-> elementCache,
       eventFuncs |-> eventFuncs, componentListeners |-> componentListeners,
       currentComponentID |-> currentComponentID, pendingEvents |-> pendingEvents,
       mountedComponents |-> mountedComponents, childrenMap |-> childrenMap,
       Mounted |-> Mounted, pview |-> pview, hookLog |-> <<>>]

Commit(s) ==
    /\ doc' = s.doc
    /\ nextH' = s.nextH
    /\ listeners' = s.listeners
    /\ nextFn' = s.nextFn
    /\ released' = s.released
    /\ idCounter' = s.idCounter
    /\ elementCache' = s.elementCache
    /\ eventFuncs' = s.eventFuncs
    /\ componentListeners' = s.componentListeners
    /\ currentComponentID' = s.currentComponentID
    /\ pendingEvents' = s.pendingEvents
    /\ mountedComponents' = s.mountedComponents
    /\ childrenMap' = s.childrenMap
    /\ Mounted' = s.Mounted
    /\ pview' = s.pview
    /\ hookLog' = s.hookLog

Op(op, parent, arg, err) == [op |-> op, parent |-> parent, arg |-> arg, err |-> err]

\* ids the application passes as parentID: the container, and one that
\* resolves to no node
ParentIDs == {"root", "void"}

\* ids the application passes to Append: the container and the id of a
\* rendered component
AppendParents == {"root", "P"}

\* components the application renders at top level
RenderArgs == {"P", "Q", "R", "H"}
AppendArgs == {"Q", "B", "PE"}
UpdateArgs == {"P", "PE", "Q", "R", "N"}
UnmountArgs == {"P", "Q", "B"}

InitSt == [doc |-> InitDoc, nextH |-> RootH + 1, listeners |-> {}, nextFn |-> 1,
           released |-> <<>>, idCounter |-> 0, elementCache |-> <<>>,
           eventFuncs |-> <<>>, componentListeners |-> <<>>,
           currentComponentID |-> "", pendingEvents |-> <<>>,
           mountedComponents |-> <<>>, childrenMap |-> <<>>,
           Mounted |-> [o \in Objs |-> FALSE], pview |-> 1, hookLog |-> <<>>]

\* record the call in the history variables
Record(o) ==
    /\ lastOp' = o
    /\ pre' = St
    /\ trace' = Append(trace, o)
    /\ unowned' = IF o.op = "On" /\ currentComponentID = ""
                  THEN unowned \cup {nextFn} ELSE unowned
    /\ UNCHANGED <<attrs, attrCalls, keyCall, keyParts, stack>>

Init ==
    /\ doc = InitDoc
    /\ nextH = RootH + 1
    /\ listeners = {}
    /\ nextFn = 1
    /\ released = <<>>
    /\ idCounter = 0
    /\ elementCache = <<>>
    /\ eventFuncs = <<>>
    /\ componentListeners = <<>>
    /\ currentComponentID = ""
    /\ pendingEvents = <<>>
    /\ mountedComponents = <<>>
    /\ childrenMap = <<>>
    /\ Mounted = [o \in Objs |-> FALSE]
    /\ pview = 1
    /\ hookLog = <<>>
    /\ lastOp = Op("init", "", NoObj, "")
    /\ pre = InitSt
    /\ trace = <<>>
    /\ unowned = {}
    /\ nops = 0
    /\ attrs = <<>>
    /\ attrCalls = <<>>
    /\ keyCall = [id |-> <<>>, name |-> <<>>]
    /\ keyParts = splitEventKey(KeyString(<<>>, <<>>))
    /\ stack = <<>>

\* dom.Render(parentID, c)
DoRender ==
    \E parentID \in ParentIDs, c \in RenderArgs :
        /\ nops < MaxOps
        /\ LET Done(r) == Commit(r.s) /\ Record(Op("Render", parentID, c, r.err))
           IN Done(Render(St, parentID, c))
        /\ nops' = nops + 1

\* dom.Append(parentID, c)
DoAppend ==
    \E parentID \in AppendParents, c \in AppendArgs :
        /\ nops < MaxOps
        /\ LET Done(r) == Commit(r.s) /\ Record(Op("Append", parentID, c, r.err))
           IN Done(AppendComp(St, parentID, c))
        /\ nops' = nops + 1

\* dom.Update(x)
DoUpdate ==
    \E x \in UpdateArgs :
        /\ nops < MaxOps
        /\ LET Done(r) == Commit(r.s) /\ Record(Op("Update", "", x, r.err))
           IN Done(Update(St, x))
        /\ nops' = nops + 1

\* unmount(c)
DoUnmount ==
    \E c \in UnmountArgs :
        /\ nops < MaxOps
        /\ LET Done(r) == Commit(r.s) /\ Record(Op("Unmount", "", c, r.err))
           IN Done(unmount(St, c))
        /\ nops' = nops + 1

\* the application changes P's state without re-rendering
SetView ==
    \E v \in 1..Len(PViews) :
        /\ v # pview
        /\ nops < MaxOps
        /\ pview' = v
        /\ Record(Op("SetView", "", "P", ""))
        /\ nops' = nops + 1
        /\ UNCHANGED <<doc, nextH, listeners, nextFn, released, idCounter, elementCache,
                       eventFuncs, componentListeners, currentComponentID, pendingEvents,
                       mountedComponents, childrenMap, Mounted, hookLog>>

\* element ids on which application code binds a listener directly
OnArgs == {"Q", "P-val"}

\* application code outside any hook:
\*   el, ok := dom.Get(id); if ok { el.On("click", h) }
\* recorded as "On" when the element was found and as "Get" when it was not
DoOn ==
    \E id \in OnArgs :
        /\ nops < MaxOps
        /\ LET Bind(g) ==
                 /\ Commit(IF g.ok THEN On(g.s, g.val, id, "click", "noop") ELSE g.s)
                 /\ Record(IF g.ok THEN Op("On", id, NoObj, "")
                           ELSE Op("Get", id, NoObj, "not found"))
           IN Bind(Get(St, id))
        /\ nops' = nops + 1

\* the callbacks a click on node h runs: attached, of type click, not released
LiveClickFns(h) ==
    {l \in listeners : l.h = h /\ l.type = "click" /\ Count(released, l.fn) = 0}

\* the "inc" handler of P's button: c.count++; dom.Update(c)
IncHandler(s) ==
    Update([s EXCEPT !.pview = IF @ = Len(PViews) THEN 1 ELSE @ + 1], "P").s

\* the user clicks the button that is in the document under id P-btn
Click ==
    LET h == getElementById(doc, "P-btn") IN
        /\ nops < MaxOps
        /\ h # Null
        /\ \E l \in LiveClickFns(h) :
              \E i \in 1..Len(eventFuncs) :
                  /\ eventFuncs[i].fn = l.fn
                  /\ eventFuncs[i].handler = "inc"
        /\ Commit(IncHandler(St))
        /\ Record(Op("Click", "", "P", ""))
        /\ nops' = nops + 1

Next == DoRender \/ DoAppend \/ DoUpdate \/ DoUnmount \/ SetView \/ Click \/ DoOn

Spec == Init /\ [][Next]_vars


\* ------------------------------------------------- the element builder
\* keys and values the application passes to Attr
AttrKeys == {"href", "type", "name"}
AttrVals == {"a", "b"}

\* variant: the pair is appended without the scan for the key
Attr_Append(as, key, val) == Append(as, [Key |-> key, Value |-> val])

\* b.Attr(key, val): the attribute list afterwards
Attr(as, key, val) ==
    LET Set(i) == IF i # 0 THEN [as EXCEPT ![i].Value = val]
                  ELSE Append(as, [Key |-> key, Value |-> val])
    IN Set(FirstOf({x \in 1..Len(as) : as[x].Key = key}))

\* the application calls el.Attr(key, val)
DoAttr ==
    \E key \in AttrKeys, val \in AttrVals :
        /\ Len(attrCalls) < MaxAttrCalls
        /\ attrs' = Attr(attrs, key, val)
        /\ attrCalls' = Append(attrCalls, [Key |-> key, Value |-> val])
        /\ UNCHANGED <<doc, nextH, listeners, nextFn, released, idCounter, elementCache,
                       eventFuncs, componentListeners, currentComponentID, pendingEvents,
                       mountedComponents, childrenMap, Mounted, pview, hookLog, lastOp,
                       pre, trace, unowned, nops, keyCall, keyParts, stack>>

NextAttr == DoAttr

\* an element under construction, driven by Attr calls only
SpecAttr == Init /\ [][NextAttr]_vars

\* --------------------------------------------------- the listener keys
\* the characters ids and event names are made of: ':' and one other
KeyChars == {"a", ":"}

\* the strings of at most n characters
RECURSIVE KeyStrings(_)
KeyStrings(n) ==
    IF n = 0 THEN {<<>>}
    ELSE KeyStrings(n - 1) \cup
         {Append(cs, ch) : cs \in {x \in KeyStrings(n - 1) : Len(x) = n - 1}, ch \in KeyChars}

\* On builds the key of an element id and an event name, and cleanupListeners
\* splits it again
DoKey ==
    \E id \in KeyStrings(MaxKeyLen), name \in KeyStrings(MaxKeyLen - 1) :
        /\ keyCall' = [id |-> id, name |-> name]
        /\ keyParts' = splitEventKey(KeyString(id, name))
        /\ UNCHANGED <<doc, nextH, listeners, nextFn, released, idCounter, elementCache,
                       eventFuncs, componentListeners, currentComponentID, pendingEvents,
                       mountedComponents, childrenMap, Mounted, pview, hookLog, lastOp,
                       pre, trace, unowned, nops, attrs, attrCalls, stack>>

NextKey == DoKey

\* keys built and split, driven by DoKey only
SpecKey == Init /\ [][NextKey]_vars


\* the current state as the driver operators see it
Cur == [St EXCEPT !.hookLog = hookLog]

\* ------------------------------------- the cleanup walks, step by step
\* unmountRecursive, cleanupChildren and cleanupListeners run one loop
\* iteration at a time on a stack of call frames, from registry tables of
\* any content

\* the components and ids the tables of a walk are filled with
WalkObjs == {"N", "G"}
WalkIDs == {ObjID(o) : o \in WalkObjs}
WalkKeys == {EventKey(id, "click") : id \in WalkIDs}

\* the sequences of at most n elements of S
RECURSIVE SeqsUpTo(_, _)
SeqsUpTo(S, n) ==
    IF n = 0 THEN {<<>>}
    ELSE SeqsUpTo(S, n - 1) \cup
         {Append(q, x) : q \in {y \in SeqsUpTo(S, n - 1) : Len(y) = n - 1}, x \in S}

\* a call frame: the function, its receiver or argument, the position in
\* its body and its local variables
Frame(fn, c, id, pc) ==
    [fn |-> fn, c |-> c, id |-> id, pc |-> pc, kids |-> <<>>, ids |-> <<>>,
     keys |-> <<>>, key |-> <<>>, i |-> 0, ci |-> 0]

UnmountFrame(c) == [Frame("unmountRecursive", c, ObjID(c), "children") EXCEPT !.kids = Children(c)]
ChildrenFrame(id) == Frame("cleanupChildren", NoObj, id, "lookup")
ListenersFrame(id) == Frame("cleanupListeners", NoObj, id, "find")

Top == stack[Len(stack)]
SetTop(f) == [stack EXCEPT ![Len(stack)] = f]
\* the caller goes on as f once the callee g has returned
Call(f, g) == Append(SetTop(f), g)
Return == SubSeq(stack, 1, Len(stack) - 1)
At(fns, pc) == stack # <<>> /\ Top.fn \in fns /\ Top.pc = pc

\* what a walk never touches
WalkFixed ==
    UNCHANGED <<doc, nextH, nextFn, idCounter, elementCache, currentComponentID,
                pendingEvents, Mounted, pview, lastOp, pre, trace, unowned, nops,
                attrs, attrCalls, keyCall, keyParts>>

\* unmountRecursive: the loop over c.Children()
WalkChildren ==
    /\ At({"unmountRecursive"}, "children")
    /\ stack' = IF Top.kids = <<>> THEN SetTop([Top EXCEPT !.pc = "lookup"])
                ELSE Call([Top EXCEPT !.kids = Tail(@)], UnmountFrame(Head(Top.kids)))
    /\ UNCHANGED <<listeners, released, eventFuncs, componentListeners,
                   mountedComponents, childrenMap, hookLog>>
    /\ WalkFixed

\* unmountRecursive and cleanupChildren: take the entry of the id out of
\* childrenMap
WalkLookup ==
    /\ At({"unmountRecursive", "cleanupChildren"}, "lookup")
    /\ LET Take(ci) ==
             IF ci = 0
             THEN /\ stack' = SetTop([Top EXCEPT !.pc = "ids"])
                  /\ UNCHANGED childrenMap
             ELSE /\ stack' = SetTop([Top EXCEPT !.pc = "ids",
                                                 !.ids = childrenMap[ci].childIDs])
                  /\ childrenMap' = SwapRemove(childrenMap, ci)
       IN Take(FirstOf({x \in 1..Len(childrenMap) : childrenMap[x].parentID = Top.id}))
    /\ UNCHANGED <<listeners, released, eventFuncs, componentListeners,
                   mountedComponents, hookLog>>
    /\ WalkFixed

\* unmountRecursive and cleanupChildren: one iteration of the loop over
\* childIDs
WalkIDsStep ==
    /\ At({"unmountRecursive", "cleanupChildren"}, "ids")
    /\ LET Child(mi) ==
             IF mi # 0
             THEN /\ mountedComponents' = SwapRemove(mountedComponents, mi)
                  /\ stack' = Call([Top EXCEPT !.ids = Tail(@)],
                                   UnmountFrame(mountedComponents[mi].comp))
             ELSE /\ UNCHANGED mountedComponents
                  /\ stack' = Call([Top EXCEPT !.ids = Tail(@)],
                                   ListenersFrame(Head(Top.ids)))
       IN IF Top.ids = <<>>
          THEN /\ stack' = IF Top.fn = "cleanupChildren" THEN Return
                           ELSE SetTop([Top EXCEPT !.pc = "hook"])
               /\ UNCHANGED mountedComponents
          ELSE Child(FirstOf({x \in 1..Len(mountedComponents) :
                                 mountedComponents[x].id = Head(Top.ids)}))
    /\ UNCHANGED <<listeners, released, eventFuncs, componentListeners,
                   childrenMap, hookLog>>
    /\ WalkFixed

\* unmountRecursive: OnUnmount, then the call of cleanupListeners
WalkHook ==
    /\ At({"unmountRecursive"}, "hook")
    /\ hookLog' = IF IsUnmountable(Top.c) THEN Append(hookLog, <<"unmount", Top.c>>)
                  ELSE hookLog
    /\ stack' = Call([Top EXCEPT !.pc = "untrack"], ListenersFrame(Top.id))
    /\ UNCHANGED <<listeners, released, eventFuncs, componentListeners,
                   mountedComponents, childrenMap>>
    /\ WalkFixed

\* unmountRecursive: untrackComponent, and return
WalkUntrack ==
    /\ At({"unmountRecursive"}, "untrack")
    /\ mountedComponents' = untrackComponent(Cur, Top.id).mountedComponents
    /\ stack' = Return
    /\ UNCHANGED <<listeners, released, eventFuncs, componentListeners,
                   childrenMap, hookLog>>
    /\ WalkFixed

\* cleanupListeners: find the listener list of the id
ListenersFind ==
    /\ At({"cleanupListeners"}, "find")
    /\ LET Found(ci) ==
             IF ci = 0 THEN Return
             ELSE SetTop([Top EXCEPT !.pc = "keys", !.ci = ci,
                                     !.keys = componentListeners[ci].keys])
       IN stack' = Found(FirstOf({x \in 1..Len(componentListeners) :
                                     componentListeners[x].id = Top.id}))
    /\ UNCHANGED <<listeners, released, eventFuncs, componentListeners,
                   mountedComponents, childrenMap, hookLog>>
    /\ WalkFixed

\* cleanupListeners: the next key of the list, or the removal of the list
\* once the keys are through
ListenersKeys ==
    /\ At({"cleanupListeners"}, "keys")
    /\ IF Top.keys = <<>>
       THEN /\ componentListeners' = SwapRemove(componentListeners, Top.ci)
            /\ stack' = Return
       ELSE /\ UNCHANGED componentListeners
            /\ stack' = SetTop([Top EXCEPT !.pc = "scan", !.key = Head(Top.keys),
                                           !.keys = Tail(@), !.i = 1])
    /\ UNCHANGED <<listeners, released, eventFuncs, mountedComponents,
                   childrenMap, hookLog>>
    /\ WalkFixed

\* variant: a matching entry is neither removed nor passed
ScanStep_Stay(efs, key, i) ==
    IF efs[i].key = key
    THEN [eventFuncs |-> efs, i |-> i, release |-> <<>>]
    ELSE [eventFuncs |-> efs, i |-> i + 1, release |-> <<>>]

\* one iteration of the loop over eventFuncs: a matching entry is released
\* and swap-removed and the index is checked again, any other entry is
\* passed
ScanStep(efs, key, i) ==
    IF efs[i].key = key
    THEN [eventFuncs |-> SwapRemove(efs, i), i |-> i, release |-> <<efs[i]>>]
    ELSE [eventFuncs |-> efs, i |-> i + 1, release |-> <<>>]

\* cleanupListeners: one iteration of the loop over eventFuncs
ListenersScan ==
    /\ At({"cleanupListeners"}, "scan")
    /\ LET Step(r) ==
             /\ eventFuncs' = r.eventFuncs
             /\ stack' = SetTop([Top EXCEPT !.i = r.i])
             /\ released' = released \o [x \in 1..Len(r.release) |-> r.release[x].fn]
             /\ listeners' = IF Len(splitEventKey(Top.key)) = 2
                             THEN listeners \ {[h |-> r.release[x].val,
                                                type |-> Str(splitEventKey(Top.key)[2]),
                                                fn |-> r.release[x].fn] :
                                                   x \in {y \in 1..Len(r.release) :
                                                             r.release[y].val # Null}}
                             ELSE listeners
       IN IF Top.i > Len(eventFuncs)
          THEN /\ stack' = SetTop([Top EXCEPT !.pc = "keys"])
               /\ UNCHANGED <<eventFuncs, released, listeners>>
          ELSE Step(ScanStep(eventFuncs, Top.key, Top.i))
    /\ UNCHANGED <<componentListeners, mountedComponents, childrenMap, hookLog>>
    /\ WalkFixed

\* the calls a walk starts with
WalkCalls ==
    {UnmountFrame(c) : c \in WalkObjs} \cup {ChildrenFrame(id) : id \in WalkIDs}

\* childrenMap and mountedComponents of any content, lists that reference
\* each other and repeated entries included
WalkChildTables == SeqsUpTo([parentID : WalkIDs, childIDs : SeqsUpTo(WalkIDs, MaxListLen)], 2)
WalkMounted == SeqsUpTo({[id |-> ObjID(o), comp |-> o] : o \in WalkObjs}, 2)

\* componentListeners and eventFuncs of any content
WalkListenerTables == SeqsUpTo([id : WalkIDs, keys : SeqsUpTo(WalkKeys, MaxListLen)], 2)
WalkEventFuncs ==
    {[x \in 1..Len(ks) |-> [key |-> ks[x], val |-> Null, fn |-> x, handler |-> "noop"]] :
        ks \in SeqsUpTo(WalkKeys, MaxListLen)}

\* a walk is about to start on tables of any content
InitWalk ==
    /\ \/ /\ stack \in {<<f>> : f \in WalkCalls}
          /\ childrenMap \in WalkChildTables
          /\ mountedComponents \in WalkMounted
          /\ componentListeners = <<>>
          /\ eventFuncs = <<>>
       \/ /\ stack \in {<<ListenersFrame(id)>> : id \in WalkIDs}
          /\ childrenMap = <<>>
          /\ mountedComponents = <<>>
          /\ componentListeners \in WalkListenerTables
          /\ eventFuncs \in WalkEventFuncs
    /\ doc = InitDoc
    /\ nextH = RootH + 1
    /\ listeners = {}
    /\ nextFn = 1
    /\ released = <<>>
    /\ idCounter = 0
    /\ elementCache = <<>>
    /\ currentComponentID = ""
    /\ pendingEvents = <<>>
    /\ Mounted = [o \in Objs |-> FALSE]
    /\ pview = 1
    /\ hookLog = <<>>
    /\ lastOp = Op(stack[1].fn, stack[1].id, stack[1].c, "")
    /\ pre = [InitSt EXCEPT !.childrenMap = childrenMap,
                            !.mountedComponents = mountedComponents,
                            !.componentListeners = componentListeners,
                            !.eventFuncs = eventFuncs]
    /\ trace = <<>>
    /\ unowned = {}
    /\ nops = 0
    /\ attrs = <<>>
    /\ attrCalls = <<>>
    /\ keyCall = [id |-> <<>>, name |-> <<>>]
    /\ keyParts = splitEventKey(KeyString(<<>>, <<>>))

NextWalk ==
    \/ WalkChildren
    \/ WalkLookup
    \/ WalkIDsStep
    \/ WalkHook
    \/ WalkUntrack
    \/ ListenersFind
    \/ ListenersKeys
    \/ ListenersScan

\* the driver runs a call to its end: a step that can be taken is taken
SpecWalk == InitWalk /\ [][NextWalk]_vars /\ WF_vars(NextWalk)

\* ------------------------------------------------------------- claims
TrackedIDs(s) == {s.mountedComponents[i].id : i \in 1..Len(s.mountedComponents)}

\* id owns a listener list, or occurs in a key of some listener list
HasListenerEntry(s, id) ==
    \E i \in 1..Len(s.componentListeners) :
        \/ s.componentListeners[i].id = id
        \/ \E k \in 1..Len(s.componentListeners[i].keys) :
               s.componentListeners[i].keys[k][1] = id

\* the callback store holds a callback registered for element id
HasCallback(s, id) ==
    \E i \in 1..Len(s.eventFuncs) : s.eventFuncs[i].key[1] = id

\* ids carried by the document subtree of the first node with the given id
SubtreeIDs(d, id) ==
    LET i == DocIndexOfId(d, id) IN
    IF i = 0 THEN {}
    ELSE {d[j].id : j \in i..SubtreeEnd(d, i)} \ {""}

PrevOp == trace[Len(trace) - 1]

\* the last call unmounted the component that the call before it rendered
RenderedThenUnmounted ==
    /\ Len(trace) >= 2
    /\ lastOp.op = "Unmount"
    /\ PrevOp.op \in {"Render", "Append"}
    /\ PrevOp.err = ""
    /\ PrevOp.arg = lastOp.arg

\* C1: after a component tree was rendered and then unmounted, no id of the
\* tree (component or event-carrying element) has a listener-list entry or a
\* stored callback.
C1_NoListenerLeftAfterUnmount ==
    RenderedThenUnmounted =>
        \A id \in SubtreeIDs(pre.doc, ObjID(lastOp.arg)) :
            ~HasListenerEntry(Cur, id) /\ ~HasCallback(Cur, id)

\* the event bindings (id, name) of the markup the component renders now
MarkupBindings(s, c) ==
    LET r == RenderRoot([s EXCEPT !.pendingEvents = <<>>], c, ObjID(c)) IN
    {<<r.s.pendingEvents[i].id, r.s.pendingEvents[i].name>> :
        i \in 1..Len(r.s.pendingEvents)}

CallbacksFor(s, key) ==
    Cardinality({i \in 1..Len(s.eventFuncs) : s.eventFuncs[i].key = key})

\* the component was rendered once by the first call, and every later call
\* is a successful Update of it (directly or through its button)
RenderedThenOnlyUpdated(c) ==
    /\ Len(trace) >= 2
    /\ trace[1].op = "Render" /\ trace[1].arg = c /\ trace[1].err = ""
    /\ \A i \in 2..Len(trace) :
           /\ trace[i].op \in {"Update", "Click"}
           /\ trace[i].arg = c
           /\ trace[i].err = ""

\* C2: after any number of successive Updates of a live component the
\* callback store holds exactly one callback per event binding of its
\* current markup.
C2_OneCallbackPerBinding ==
    \A c \in {"P", "Q"} :
        RenderedThenOnlyUpdated(c) =>
            \A key \in MarkupBindings(Cur, c) : CallbacksFor(Cur, key) = 1

Logged(entry) == \E i \in 1..Len(hookLog) : hookLog[i] = entry

IsTracked(s, o) ==
    \E i \in 1..Len(s.mountedComponents) :
        s.mountedComponents[i].id = ObjID(o) /\ s.mountedComponents[i].comp = o

\* the children tracked for P before the call, and those of its new output
OldKids ==
    LET ci == FirstOf({x \in 1..Len(pre.childrenMap) : pre.childrenMap[x].parentID = "P"}) IN
    IF ci = 0 THEN {} ELSE Range(pre.childrenMap[ci].childIDs)
NewKids == Range(PViews[pview])

\* the event-carrying element ids of the children's markup
KidElementIDs(o) ==
    CASE o = "A" -> {"A"} [] o = "B" -> {"B-btn"} [] o = "C" -> {"D-btn"} [] OTHER -> {}

\* a successful Update of P tracked with the children of pre.pview
UpdatedParent ==
    /\ lastOp.op = "Update" /\ lastOp.arg = "P" /\ lastOp.err = ""
    /\ IsTracked(pre, "P")
    /\ \A k \in OldKids : IsTracked(pre, k)

\* C3: when Update re-renders a parent, every child dropped from its output
\* has been unmounted (hook invoked, listeners released, untracked) and every
\* child kept is tracked, mounted and has its listeners registered.
C3_DroppedUnmountedKeptLive ==
    UpdatedParent =>
        /\ \A b \in OldKids \ NewKids :
               /\ Logged(<<"unmount", b>>)
               /\ ~Mounted[b]
               /\ ~IsTracked(Cur, b)
               /\ \A id \in KidElementIDs(b) \cup {ObjID(b)} :
                      ~HasListenerEntry(Cur, id) /\ ~HasCallback(Cur, id)
        /\ \A a \in NewKids :
               /\ IsTracked(Cur, a)
               /\ Mounted[a]
               /\ \A id \in KidElementIDs(a) : HasCallback(Cur, id)

\* the last call rendered a different component into the parent that the
\* call before it had rendered a component into
RenderedOverPrevious ==
    /\ Len(trace) >= 2
    /\ lastOp.op = "Render" /\ lastOp.err = ""
    /\ PrevOp.op \in {"Render", "Append"} /\ PrevOp.err = ""
    /\ PrevOp.parent = lastOp.parent
    /\ PrevOp.arg # lastOp.arg

\* C4: Render into a parent whose content came from an earlier Render or
\* Append of c1 unmounts c1 and its tree: hooks invoked, untracked, no
\* listener left.
C4_RenderCleansPreviousOccupant ==
    RenderedOverPrevious =>
        /\ ~IsTracked(Cur, PrevOp.arg)
        /\ IsUnmountable(PrevOp.arg) => Logged(<<"unmount", PrevOp.arg>>)
        /\ \A id \in SubtreeIDs(pre.doc, ObjID(PrevOp.arg)) :
               ~HasListenerEntry(Cur, id) /\ ~HasCallback(Cur, id)

\* a click on node h runs the "inc" handler
ClickRunsInc(s, h) ==
    \E l \in s.listeners :
        /\ l.h = h /\ l.type = "click" /\ Count(s.released, l.fn) = 0
        /\ \E i \in 1..Len(s.eventFuncs) :
               s.eventFuncs[i].fn = l.fn /\ s.eventFuncs[i].handler = "inc"

\* C5: after Render and after every later Update the click listener of the
\* fixed-id button is registered on the button node that is in the document.
C5_ButtonListenerOnCurrentNode ==
    (\/ (Len(trace) = 1 /\ lastOp.op = "Render" /\ lastOp.arg = "P" /\ lastOp.err = "")
     \/ RenderedThenOnlyUpdated("P")) =>
        ClickRunsInc(Cur, getElementById(doc, "P-btn"))

\* C6: no element-cache entry refers to a replaced or removed node: the
\* cached handle of every id is the node that carries the id now.
C6_CacheNeverStale ==
    \A i \in 1..Len(elementCache) :
        elementCache[i].val = getElement(Cur, elementCache[i].id)


\* C1 (case reached): a rendered tree with an inner event binding was unmounted
C1_Reached ==
    RenderedThenUnmounted /\ lastOp.arg = "B" /\ "B-btn" \in SubtreeIDs(pre.doc, "B")

UpdateSucceeded == lastOp.op \in {"Update", "Click"} /\ lastOp.err = ""

\* C7: after a successful Update of c, a lookup of c's id returns the node
\* that this Update inserted, never the node that carried the id before.
C7_LookupReturnsNewNode ==
    UpdateSucceeded =>
        LET id == ObjID(lastOp.arg)
            g  == Get(Cur, id)
        IN /\ g.ok
           /\ g.val = pre.nextH
           /\ g.val # getElementById(pre.doc, id)
           /\ DocIndexOfH(doc, g.val) # 0

\* C7 witness: the id was cached for the old node when Update replaced it
C7_Witness ==
    /\ lastOp.op = "Update" /\ lastOp.err = ""
    /\ \E i \in 1..Len(pre.elementCache) :
           /\ pre.elementCache[i].id = ObjID(lastOp.arg)
           /\ pre.elementCache[i].val = getElementById(pre.doc, ObjID(lastOp.arg))

\* number of places in the listener lists that hold key
OwnersOf(s, key) ==
    Cardinality({<<i, k>> \in (1..Len(s.componentListeners)) \X (1..(2 * MaxOps + 8)) :
                    /\ k <= Len(s.componentListeners[i].keys)
                    /\ s.componentListeners[i].keys[k] = key})

\* C8: every event key in the callback store appears in exactly one
\* listener list and has exactly one stored callback.
C8_KeysUniquelyOwned ==
    \A i \in 1..Len(eventFuncs) :
        /\ CallbacksFor(Cur, eventFuncs[i].key) = 1
        /\ OwnersOf(Cur, eventFuncs[i].key) = 1

Failed(op) == \E i \in 1..Len(trace) : trace[i].op = op /\ trace[i].err # ""

\* C9: Render or Append with an unresolvable parent and Update of a
\* component whose node cannot be resolved return an error, and a call that
\* returned an error has not added the component to the mounted table.
C9_FailedCallTracksNothing ==
    /\ (lastOp.op \in {"Render", "Append"} /\ getElement(pre, lastOp.parent) = Null)
           => lastOp.err # ""
    /\ (lastOp.op = "Update" /\ getElementById(pre.doc, ObjID(lastOp.arg)) = Null)
           => lastOp.err # ""
    /\ (lastOp.op \in {"Render", "Append", "Update"} /\ lastOp.err # "")
           => /\ TrackedIDs(Cur) \subseteq TrackedIDs(pre)
              /\ ~IsTracked(pre, lastOp.arg) => ~IsTracked(Cur, lastOp.arg)

\* C9 witness: a Render, an Append and an Update have failed, and the
\* component of the last one is not tracked
C9_Witness ==
    /\ Failed("Render") /\ Failed("Append") /\ Failed("Update")
    /\ lastOp.err # ""
    /\ ~IsTracked(Cur, lastOp.arg)

\* the instance the mounted table held for the id of x before the call
TrackedInstance(s, o) ==
    s.mountedComponents[FirstOf({i \in 1..Len(s.mountedComponents) :
                                    s.mountedComponents[i].id = ObjID(o)})].comp

\* C10: Update(x) for any x whose id is that of a tracked component has the
\* effect of Update called with the tracked instance, and invokes that
\* instance's update hook.
C10_UpdateUsesTrackedInstance ==
    (lastOp.op = "Update" /\ ObjID(lastOp.arg) \in TrackedIDs(pre)) =>
        LET inst == TrackedInstance(pre, lastOp.arg)
            r == Update(pre, inst)
        IN /\ Cur = r.s
           /\ lastOp.err = r.err
           /\ (r.err = "" /\ IsUpdatable(inst)) => Logged(<<"update", inst>>)

\* C10 witness: Update was handed the element embedded in the tracked P
C10_Witness ==
    /\ lastOp.op = "Update" /\ lastOp.arg = "PE" /\ lastOp.err = ""
    /\ IsTracked(pre, "P")
    /\ Logged(<<"update", "P">>)

\* the instance a call Update(lastOp.arg) works on
UpdatedInstance ==
    IF ObjID(lastOp.arg) \in TrackedIDs(pre) THEN TrackedInstance(pre, lastOp.arg)
    ELSE lastOp.arg

\* the child components collected from the markup the instance renders now
NewComps == RenderRoot(Cur, UpdatedInstance, ObjID(lastOp.arg)).comps

\* C11: a successful Update(c) invokes c's update hook exactly once if c has
\* one, does not invoke c's own mount hook, and invokes the mount hook of
\* every child component collected from the new markup.
C11_UpdateHooks ==
    UpdateSucceeded =>
        /\ Count(hookLog, <<"update", UpdatedInstance>>)
               = IF IsUpdatable(UpdatedInstance) THEN 1 ELSE 0
        /\ ~Logged(<<"mount", UpdatedInstance>>)
        /\ \A i \in 1..Len(NewComps) :
               IsMountable(NewComps[i]) => Logged(<<"mount", NewComps[i]>>)

\* C11 witness: an Update of the parent re-rendered markup with children
C11_Witness ==
    /\ lastOp.op = "Update" /\ lastOp.err = ""
    /\ UpdatedInstance = "P"
    /\ Len(NewComps) > 0
    /\ Logged(<<"update", "P">>)

\* replay of the hook invocations of one call against the per-component
\* state machine: live[o] is TRUE between o's mount hook and its unmount hook
RECURSIVE HooksFollowLifecycle(_, _)
HooksFollowLifecycle(log, live) ==
    IF log = <<>> THEN TRUE
    ELSE LET e == Head(log) IN
         CASE e[1] = "mount"   -> HooksFollowLifecycle(Tail(log), [live EXCEPT ![e[2]] = TRUE])
           [] e[1] = "update"  -> live[e[2]] /\ HooksFollowLifecycle(Tail(log), live)
           [] e[1] = "unmount" -> live[e[2]]
                                  /\ HooksFollowLifecycle(Tail(log), [live EXCEPT ![e[2]] = FALSE])
           [] OTHER            -> HooksFollowLifecycle(Tail(log), live)

\* C12: a component's update hook and unmount hook are invoked only after
\* its mount hook, and after its unmount hook no hook is invoked on it until
\* it is rendered again.
C12_HooksFollowLifecycle ==
    lastOp.op \in {"Render", "Append", "Update", "Unmount", "Click"} =>
        HooksFollowLifecycle(hookLog, pre.Mounted)

\* positions in the hook log
LogAt(entry) == {i \in 1..Len(hookLog) : hookLog[i] = entry}

\* the children of component c when the call started: those it declares and
\* those tracked for its id whose instance is held
DeclaredKids(c) == Range(Children(c))
TrackedKids(s, c) ==
    {s.mountedComponents[m].comp : m \in
        {m \in 1..Len(s.mountedComponents) :
            \E x \in 1..Len(s.childrenMap) :
                /\ s.childrenMap[x].parentID = ObjID(c)
                /\ s.mountedComponents[m].id \in Range(s.childrenMap[x].childIDs)}}

\* element ids of the listeners filed under the id of component c
OwnedKeyIDs(s, c) ==
    UNION {{s.componentListeners[x].keys[k][1] : k \in 1..Len(s.componentListeners[x].keys)} :
              x \in {x \in 1..Len(s.componentListeners) : s.componentListeners[x].id = ObjID(c)}}

\* the log positions at which c itself is cleaned up: its unmount hook and
\* the releases of its own listeners
OwnCleanupAt(c) ==
    LogAt(<<"unmount", c>>) \cup UNION {LogAt(<<"release", id>>) : id \in OwnedKeyIDs(pre, c)}

\* C13: in every unmount or cleanup of a subtree, the unmount hooks and
\* listener releases of a component's declared and tracked children come
\* before its own unmount hook and before the release of its own listeners.
C13_ChildrenFirst ==
    lastOp.op \in {"Render", "Append", "Update", "Unmount", "Click"} =>
        \A c \in Objs :
            LogAt(<<"unmount", c>>) # {} =>
                \A k \in DeclaredKids(c) \cup TrackedKids(pre, c) :
                    /\ IsUnmountable(k) => LogAt(<<"unmount", k>>) # {}
                    /\ \A i \in OwnCleanupAt(k) : \A j \in OwnCleanupAt(c) : i < j

\* C13 witness: a parent with tracked children, one of which declares a
\* child that owns a listener, was unmounted
C13_Witness ==
    /\ lastOp.op = "Unmount" /\ lastOp.arg = "P"
    /\ {"A", "C"} \subseteq TrackedKids(pre, "P")
    /\ Logged(<<"unmount", "P">>) /\ Logged(<<"unmount", "D">>)
    /\ Logged(<<"release", "D-btn">>) /\ Logged(<<"release", "A">>)

\* number of document nodes that carry id
NodesWithId(d, id) == Cardinality({x \in 1..Len(d) : d[x].id = id})

\* id is a parent in the children table
IsParentEntry(s, id) ==
    \E x \in 1..Len(s.childrenMap) : s.childrenMap[x].parentID = id

IsCached(s, id) == \E x \in 1..Len(s.elementCache) : s.elementCache[x].id = id

StoredAndLive(s, fn) ==
    /\ \E i \in 1..Len(s.eventFuncs) : s.eventFuncs[i].fn = fn
    /\ Count(s.released, fn) = 0

\* C15: a listener registered through On while no component is current is
\* stored in the callback store and added to no listener list, and no later
\* Render, Append, Update or unmount releases it.
C15_UnownedNeverReleased ==
    /\ (lastOp.op = "On" /\ pre.currentComponentID = "") =>
           /\ pre.nextFn \in unowned
           /\ componentListeners = pre.componentListeners
    /\ \A fn \in unowned : StoredAndLive(Cur, fn)

\* the marker observations of the last call
Markers == {i \in 1..Len(hookLog) : hookLog[i][1] = "marker"}

\* C16: the current-component marker is saved and restored under call/return
\* nesting: every observation made while a component is being mounted, at
\* the start of its mount hook, after a re-entrant Render issued from the
\* hook, and after its nested child mounts, sees that component's id; and
\* when a top-level call returns the marker has the value it had before.
C16_MarkerRestored ==
    /\ lastOp.op \in {"Render", "Append", "Update", "Unmount", "Click", "On"} =>
           currentComponentID = pre.currentComponentID
    /\ lastOp.op \in {"Render", "Append", "Update", "Click"} =>
           \A i \in Markers : hookLog[i][3] = ObjID(hookLog[i][2])

\* a Render of H whose mount hook rendered Q re-entrantly: H observed the
\* marker before and after the nested Render and after Q was mounted inside
C16_Witness ==
    /\ lastOp.op = "Render" /\ lastOp.arg = "H" /\ lastOp.err = ""
    /\ \E i, j, k \in Markers :
          /\ i < j /\ j < k
          /\ hookLog[i] = <<"marker", "H", "H">>
          /\ hookLog[j] = <<"marker", "Q", "Q">>
          /\ hookLog[k] = <<"marker", "H", "H">>
    /\ \E x \in 1..Len(componentListeners) :
          /\ componentListeners[x].id = "H"
          /\ EventKey("H", "click") \in Range(componentListeners[x].keys)

\* the markup and the collected children of the component the last
\* Render or Append serialized
Serialized == RenderRoot(pre, lastOp.arg, ObjID(lastOp.arg))

\* the ids of the component of the last call, of the children collected
\* from its markup and of the elements of its markup
OwnIDs ==
    {ObjID(lastOp.arg)}
      \cup {ObjID(Serialized.comps[i]) : i \in 1..Len(Serialized.comps)}
      \cup {Serialized.html[i].id :
               i \in {x \in 1..Len(Serialized.html) : Serialized.html[x].t = "open"}}

IsPrefix(a, b) == Len(a) <= Len(b) /\ SubSeq(b, 1, Len(a)) = a

\* C17: Append(parentID, c) does not unmount, untrack or release the
\* listeners of anything tracked before the call: every mounted-table
\* entry, child list and listener entry present before is present and
\* unchanged afterwards; only entries for c and its children are added.
C17_AppendKeepsTracked ==
    lastOp.op = "Append" =>
        /\ released = pre.released
        /\ IsPrefix(pre.eventFuncs, eventFuncs)
        /\ pre.listeners \subseteq listeners
        /\ \A i \in 1..Len(hookLog) : hookLog[i][1] \notin {"unmount", "release"}
        /\ \A e \in Range(pre.mountedComponents) :
              /\ e.id \in TrackedIDs(Cur)
              /\ e.id \notin OwnIDs => e \in Range(mountedComponents)
        /\ \A e \in Range(pre.childrenMap) :
              /\ IsParentEntry(Cur, e.parentID)
              /\ e.parentID \notin OwnIDs => e \in Range(childrenMap)
        /\ \A e \in Range(pre.componentListeners) :
              /\ \E f \in Range(componentListeners) :
                    f.id = e.id /\ IsPrefix(e.keys, f.keys)
              /\ e.id \notin OwnIDs => e \in Range(componentListeners)
        /\ \A e \in Range(mountedComponents) :
              e \notin Range(pre.mountedComponents) => e.id \in OwnIDs
        /\ \A e \in Range(childrenMap) :
              e \notin Range(pre.childrenMap) => e.parentID \in OwnIDs
        /\ \A e \in Range(componentListeners) :
              e \notin Range(pre.componentListeners) => e.id \in OwnIDs

\* the same statement for calls that start with no pending event left over
C17_AppendKeepsTracked_NoneLeft ==
    pre.pendingEvents = <<>> => C17_AppendKeepsTracked

\* a successful Append of a component into the node of a rendered component
\* that has tracked children, a child list and listeners of its own
C17_Witness ==
    /\ lastOp.op = "Append" /\ lastOp.err = "" /\ lastOp.parent = "P"
    /\ lastOp.arg \in {"Q", "R"}
    /\ \E e \in Range(pre.childrenMap) : e.parentID = "P" /\ Len(e.childIDs) > 0
    /\ \E e \in Range(pre.mountedComponents) : e.id \notin OwnIDs
    /\ \E e \in Range(pre.componentListeners) : e.id \notin OwnIDs
    /\ Len(mountedComponents) > Len(pre.mountedComponents)
    /\ Len(componentListeners) > Len(pre.componentListeners)

\* the bindings the serialization r queued
QueuedBindings(r) ==
    SubSeq(r.s.pendingEvents, Len(pre.pendingEvents) + 1, Len(r.s.pendingEvents))

\* the ids the elements of the markup of r carry
MarkupIDs(r) ==
    {r.html[x].id : x \in {y \in 1..Len(r.html) : r.html[y].t = "open"}}

\* the call registered a callback for the binding under the binding's id,
\* on the node of the document that carries the id
WiredUnder(pe) ==
    \E ef \in Range(eventFuncs) :
        /\ ef.key = EventKey(pe.id, pe.name)
        /\ ef.handler = pe.handler
        /\ ef.fn >= pre.nextFn
        /\ ef.val # Null
        /\ DocIndexOfH(doc, ef.val) # 0
        /\ doc[DocIndexOfH(doc, ef.val)].id = pe.id
        /\ [h |-> ef.val, type |-> pe.name, fn |-> ef.fn] \in listeners

\* the ids the serialization r generated
GeneratedIDs(r) == {ToString(k) : k \in (pre.idCounter + 1)..r.s.idCounter}

\* C18: every element with an event binding and no explicit id has, once
\* serialized, a non-empty id that appears in its markup, and each of its
\* bindings is wired under that id.
C18_BoundElementHasId ==
    lastOp.op \in {"Render", "Append"} =>
        LET r   == Serialized
            new == Range(QueuedBindings(r))
            ids == MarkupIDs(r)
            gen == GeneratedIDs(r)
        IN /\ \A pe \in new : pe.id # "" /\ pe.id \in ids
           /\ lastOp.err = "" => \A pe \in new : pe.id \in gen => WiredUnder(pe)

\* a successful Render or Append of R, whose button has a binding and no id
C18_Witness ==
    /\ lastOp.op \in {"Render", "Append"} /\ lastOp.arg = "R" /\ lastOp.err = ""
    /\ Serialized.s.idCounter = pre.idCounter + 1
    /\ \E pe \in Range(QueuedBindings(Serialized)) :
          /\ pe.id = ToString(pre.idCounter + 1)
          /\ \E x \in 1..Len(Serialized.html) :
                Serialized.html[x] = Open("button", pe.id)
          /\ WiredUnder(pe)

\* the components the last Render or Append tracked and serialized through
\* their Render(): the root if it is a ViewRenderer, and the collected
\* children that reach the ViewRenderer case of the child switch
ViewRendered ==
    {o \in {lastOp.arg} : IsViewRenderer(o)}
      \cup {Serialized.comps[i] :
               i \in {x \in 1..Len(Serialized.comps) :
                         /\ ~IsElementNode(Serialized.comps[x])
                         /\ IsViewRenderer(Serialized.comps[x])}}

\* C19: after a successful Render or Append, every component tracked by the
\* call and rendered through its Render() has a non-empty id and the
\* document contains a node carrying that id.
C19_RenderedViewHasNode ==
    (lastOp.op \in {"Render", "Append"} /\ lastOp.err = "") =>
        \A o \in ViewRendered :
            /\ ObjID(o) # ""
            /\ IsTracked(Cur, o)
            /\ getElementById(doc, ObjID(o)) # Null

\* the same statement for the components whose Render() leaves the id of
\* its root element empty
C19_RenderedViewHasNode_NoRootId ==
    (lastOp.op \in {"Render", "Append"} /\ lastOp.err = "") =>
        \A o \in ViewRendered :
            (o = lastOp.arg /\ ViewRender(pre, o).id = "") =>
                /\ ObjID(o) # ""
                /\ IsTracked(Cur, o)
                /\ getElementById(doc, ObjID(o)) # Null

\* the markup a component gets as the root of Render, Append or Update
RootMarkup(s, o) == RenderRoot(s, o, ObjID(o)).html

\* the markup a component gets as a child inside another tree
ChildMarkup(s, o) == RenderChildren(s, << CompChild(o) >>, <<>>).html

\* markup without the id of its first element (the id a root may get
\* injected)
EraseRootId(html) ==
    IF html # <<>> /\ html[1].t = "open"
    THEN [html EXCEPT ![1] = [@ EXCEPT !.id = ""]]
    ELSE html

\* the child components the last Render or Append serialized
SerializedChildren == {Serialized.comps[i] : i \in 1..Len(Serialized.comps)}

\* C20: a component is serialized by the same capability priority as a root
\* and as a child: every child component the last call serialized got the
\* markup it gets as the root of a call, up to the injected root id.
C20_SamePriorityRootAndChild ==
    lastOp.op \in {"Render", "Append"} =>
        \A o \in SerializedChildren :
            EraseRootId(ChildMarkup(pre, o)) = EraseRootId(RootMarkup(pre, o))

\* the same statement for the components that do not have both Render()
\* and AsElement()
C20_SamePriorityRootAndChild_OneCapability ==
    lastOp.op \in {"Render", "Append"} =>
        \A o \in SerializedChildren :
            ~(IsViewRenderer(o) /\ IsElementNode(o)) =>
                EraseRootId(ChildMarkup(pre, o)) = EraseRootId(RootMarkup(pre, o))

\* the number of entries of the mounted table of s that carry id
EntriesFor(s, id) ==
    Cardinality({x \in 1..Len(s.mountedComponents) : s.mountedComponents[x].id = id})

\* C21: the mounted table holds at most one entry per id, and tracking a
\* component whose id is already tracked leaves the table unchanged.
C21_OneEntryPerId ==
    /\ \A i, j \in 1..Len(mountedComponents) :
          mountedComponents[i].id = mountedComponents[j].id => i = j
    /\ LET c == Cur
           ids == TrackedIDs(Cur)
       IN \A o \in Objs :
              (ObjID(o) \in ids /\ EntriesFor(c, ObjID(o)) = 1) =>
                  trackComponent(c, o).mountedComponents = mountedComponents

\* a successful Render or Append of a component whose id was tracked before
\* the call and is tracked once after it
C21_Witness ==
    /\ lastOp.op \in {"Render", "Append"} /\ lastOp.err = ""
    /\ ObjID(lastOp.arg) \in TrackedIDs(pre)
    /\ EntriesFor(Cur, ObjID(lastOp.arg)) = 1
    /\ Len(mountedComponents) > 1

\* the node the callback registered by the last top-level On is attached to
BoundNode == eventFuncs[Len(eventFuncs)].val

\* an earlier top-level Get of the id of the last call found nothing
MissedBefore ==
    \E i \in 1..(Len(trace) - 1) : trace[i] = Op("Get", lastOp.parent, NoObj, "not found")

\* C22: Get(id) for an id that resolves to no node returns not-found and
\* leaves the element cache unchanged, so that a later Get for the same id,
\* issued after a node with that id has been inserted, returns that node.
C22_MissLeavesCache ==
    LET c == Cur
    IN /\ lastOp.op = "Get" =>
             /\ lastOp.err = "not found"
             /\ c = pre
             /\ ~IsCached(c, lastOp.parent)
       /\ \A id \in OnArgs :
             (~IsCached(c, id) /\ getElementById(doc, id) = Null) =>
                 Get(c, id) = [s |-> c, val |-> Null, ok |-> FALSE]
       /\ (lastOp.op = "On" /\ ~IsCached(pre, lastOp.parent)) =>
             /\ BoundNode # Null
             /\ BoundNode = getElementById(pre.doc, lastOp.parent)
             /\ IsCached(c, lastOp.parent)

\* a Get that found nothing, then a call that inserted a node with the id,
\* then a Get that returned that node
C22_Witness ==
    /\ lastOp.op = "On" /\ MissedBefore
    /\ Len(trace) = 3
    /\ trace[1].op = "Get" /\ trace[2].op \in {"Render", "Append"}
    /\ ~IsCached(pre, lastOp.parent)
    /\ BoundNode = getElementById(doc, lastOp.parent)
    /\ DocIndexOfH(pre.doc, BoundNode) # 0

\* the void elements of the application's trees, with the children they
\* were given
VoidSamples ==
    { El("br", "", <<>>, <<TextChild("never")>>, TRUE),
      El("hr", "", <<>>,
         << ElChild(El("span", "R-never", <<Ev("click", "noop")>>, <<>>, FALSE)),
            CompChild("A") >>,
         TRUE),
      El("input", "in", <<Ev("input", "noop")>>, <<CompChild("B")>>, TRUE) }

\* markup whose only token is the opening tag of el
OpeningTagOnly(html, el) == html = << Open(el.tag, el.id) >>

\* the document nodes below node x of d
Below(d, x) == (x + 1)..SubtreeEnd(d, x)

\* C23: a void element serializes to its opening tag only: none of its
\* children appears in the output and no closing tag is emitted, both when
\* rendered to a markup string and when rendered into the document.
C23_VoidOpeningTagOnly ==
    /\ LET c == Cur
       IN \A el \in VoidSamples :
              LET r == renderToHTML(c, el, <<>>)
              IN /\ OpeningTagOnly(elementToHTML(el), el)
                 /\ OpeningTagOnly(r.html, el)
                 /\ r.comps = <<>>
                 /\ Len(r.s.pendingEvents) = Len(pendingEvents) + Len(el.events)
    /\ (lastOp.op = "Render" /\ lastOp.arg \in {"R", "H"}) =>
          LET r == Serialized
          IN \A x \in 1..Len(r.html) :
                /\ r.html[x] \notin {Close("hr"), Close("br"), Text("never")}
                /\ r.html[x].t = "open" => r.html[x].id \notin {"R-never", "A"}
    /\ (lastOp.op = "Render" /\ lastOp.arg = "R" /\ lastOp.err = "") =>
          /\ \A x \in 1..Len(doc) : doc[x].tag = "hr" => Below(doc, x) = {}
          /\ getElementById(doc, "R-never") = Null
          /\ \A ef \in Range(eventFuncs) : ef.key[1] # "R-never"
          /\ \A e \in Range(pendingEvents) : e.id # "R-never"

\* a successful Render of R, whose markup holds a void element with
\* children: the element is in the document
C23_Witness ==
    /\ lastOp.op = "Render" /\ lastOp.arg = "R" /\ lastOp.err = ""
    /\ \E x \in 1..Len(doc) : doc[x].tag = "hr"
    /\ \E x \in 1..Len(Serialized.html) : Serialized.html[x] = Open("hr", "")
    /\ elementToHTML(HElement) = << Open("div", "H"), Open("br", ""), Close("div") >>

\* the calls of the history that set key
CallsFor(key) == {i \in 1..Len(attrCalls) : attrCalls[i].Key = key}

Least(S) == CHOOSE m \in S : \A n \in S : m <= n
Greatest(S) == CHOOSE m \in S : \A n \in S : n <= m

\* C24: after any sequence of Attr calls the attribute list holds at most
\* one pair per key, the value of each key is that of the last call for the
\* key, and keys keep the order of their first insertion.
C24_AttrLastWriteWins ==
    /\ \A i, j \in 1..Len(attrs) : attrs[i].Key = attrs[j].Key => i = j
    /\ \A key \in AttrKeys :
          (\E i \in 1..Len(attrs) : attrs[i].Key = key) <=> CallsFor(key) # {}
    /\ \A i \in 1..Len(attrs) :
          attrs[i].Value = attrCalls[Greatest(CallsFor(attrs[i].Key))].Value
    /\ \A i, j \in 1..Len(attrs) :
          i < j => Least(CallsFor(attrs[i].Key)) < Least(CallsFor(attrs[j].Key))

\* a key set, then another key, then the first key set to another value
C24_Witness ==
    /\ Len(attrCalls) = 3
    /\ attrCalls[1].Key = attrCalls[3].Key
    /\ attrCalls[1].Value # attrCalls[3].Value
    /\ attrCalls[2].Key # attrCalls[1].Key
    /\ Len(attrs) = 2
    /\ attrs[1] = attrCalls[3]
    /\ attrs[2] = attrCalls[2]

\* the component whose rendering produced the element with the given id in
\* the serialization r of component root: the collected child whose markup
\* holds the id, else the root
ProducerOf(r, root, id) ==
    LET kids == {k \in Range(r.comps) :
                    \E x \in 1..Len(ChildMarkup(pre, k)) :
                        /\ ChildMarkup(pre, k)[x].t = "open"
                        /\ ChildMarkup(pre, k)[x].id = id}
    IN IF kids = {} THEN root ELSE CHOOSE k \in kids : TRUE

\* the callbacks the last call registered for the binding pe
WiredFor(pe) ==
    {ef.fn : ef \in {e \in Range(eventFuncs) :
                        e.key = EventKey(pe.id, pe.name) /\ e.fn >= pre.nextFn}}

\* cleaning up the listeners of component o in the current state releases fn
CleanupReleases(o, fn) ==
    Count(cleanupListeners(Cur, ObjID(o)).released, fn) > 0

\* C25: every listener wired from a declarative binding during Render or
\* Append is attributed to the component whose rendering produced the
\* element, so that cleaning up that component's listeners releases it.
C25_BindingOwnedByProducer ==
    (lastOp.op \in {"Render", "Append"} /\ lastOp.err = "" /\ pre.pendingEvents = <<>>) =>
        LET r == Serialized
        IN \A pe \in Range(QueuedBindings(r)) :
               \A fn \in WiredFor(pe) :
                   CleanupReleases(ProducerOf(r, lastOp.arg, pe.id), fn)

\* the same statement for the bindings of an element that carries the id of
\* its component
C25_BindingOwnedByProducer_OwnId ==
    (lastOp.op \in {"Render", "Append"} /\ lastOp.err = "" /\ pre.pendingEvents = <<>>) =>
        LET r == Serialized
        IN \A pe \in Range(QueuedBindings(r)) :
               pe.id = ObjID(ProducerOf(r, lastOp.arg, pe.id)) =>
                   /\ WiredFor(pe) # {}
                   /\ \A fn \in WiredFor(pe) :
                          CleanupReleases(ProducerOf(r, lastOp.arg, pe.id), fn)

\* ---------------------------------------------------------------- C26
\* the component id is listed as a child of some rendered root
DiscoveredAsChild(s, id) ==
    \E i \in 1..Len(s.childrenMap) :
        \E j \in 1..Len(s.childrenMap[i].childIDs) : s.childrenMap[i].childIDs[j] = id

\* the child components the markup of c contains (the children-discovered
\* components of the universe have a markup that does not depend on state)
MarkupChildren(s, c) == RenderRoot(s, c, ObjID(c)).comps

\* the callbacks registered before the call under a key of element id
FnsUnder(s, id) ==
    {s.eventFuncs[i].fn : i \in {x \in 1..Len(s.eventFuncs) : s.eventFuncs[x].key[1] = id}}

\* every mounted child component of c's previous markup had its unmount hook
\* invoked and the listeners on its root released by the call
ChildrenCleaned(c) ==
    LET kids == MarkupChildren(pre, c) IN
    \A j \in 1..Len(kids) :
        pre.Mounted[kids[j]] =>
            /\ \E x \in 1..Len(hookLog) : hookLog[x] = <<"unmount", kids[j]>>
            /\ \A fn \in FnsUnder(pre, ObjID(kids[j])) : Count(released, fn) > 0

\* C26: a successful Update(c) of a component c that was discovered as a child
\* in another component's markup invokes the unmount hook and releases the
\* listeners of every child component c's previous markup contained
C26_UpdateCleansChildOfChild ==
    (/\ lastOp.op = "Update" /\ lastOp.err = ""
     /\ DiscoveredAsChild(pre, ObjID(lastOp.arg)))
        => ChildrenCleaned(ResolveTracked(pre, lastOp.arg))

\* the reference behaviour: when c was rendered as a root, Update(c) invokes
\* the unmount hook of every mounted component filed under c's id
C26_UpdateCleansChildOfRoot ==
    (lastOp.op = "Update" /\ lastOp.err = "") =>
        \A i \in 1..Len(pre.childrenMap) :
            pre.childrenMap[i].parentID = ObjID(lastOp.arg) =>
                \A m \in 1..Len(pre.mountedComponents) :
                    (/\ \E j \in 1..Len(pre.childrenMap[i].childIDs) :
                            pre.childrenMap[i].childIDs[j] = pre.mountedComponents[m].id
                     /\ IsUnmountable(pre.mountedComponents[m].comp)
                     /\ pre.Mounted[pre.mountedComponents[m].comp])
                        => \E x \in 1..Len(hookLog) :
                               hookLog[x] = <<"unmount", pre.mountedComponents[m].comp>>

\* an Update of a root with mounted children filed under its id
C26_RootCase ==
    /\ lastOp.op = "Update" /\ lastOp.err = ""
    /\ \E i \in 1..Len(pre.childrenMap) :
           /\ pre.childrenMap[i].parentID = ObjID(lastOp.arg)
           /\ \E j \in 1..Len(pre.childrenMap[i].childIDs) :
                  \E x \in 1..Len(hookLog) : hookLog[x][1] = "unmount"

\* ---------------------------------------------------------------- C27
\* the ids filed in the registry as children of the component id
ChildIDs(s, id) ==
    UNION {{s.childrenMap[i].childIDs[j] : j \in 1..Len(s.childrenMap[i].childIDs)} :
              i \in {x \in 1..Len(s.childrenMap) : s.childrenMap[x].parentID = id}}

\* the children of the updated component that are part of both the previous
\* and the new markup: tracked, and filed under its id before and after the call
KeptChildren ==
    {m \in 1..Len(pre.mountedComponents) :
        /\ pre.mountedComponents[m].id \in ChildIDs(pre, ObjID(lastOp.arg))
        /\ pre.mountedComponents[m].id \in ChildIDs(Cur, ObjID(lastOp.arg))}

\* C27: during a successful Update, the unmount hook of a child component
\* that is part of both the previous and the new markup is not invoked
C27_KeptChildNotUnmounted ==
    (lastOp.op = "Update" /\ lastOp.err = "") =>
        \A m \in KeptChildren :
            ~ \E x \in 1..Len(hookLog) :
                  hookLog[x] = <<"unmount", pre.mountedComponents[m].comp>>

\* the weaker statement: a kept child is in the mounted table when the
\* Update has returned
C27_KeptChildTrackedAfter ==
    (lastOp.op = "Update" /\ lastOp.err = "") =>
        \A m \in KeptChildren :
            \E n \in 1..Len(mountedComponents) :
                mountedComponents[n] = pre.mountedComponents[m]

\* an Update that keeps a child
C27_KeptCase ==
    lastOp.op = "Update" /\ lastOp.err = "" /\ KeptChildren # {}

\* ---------------------------------------------------------------- C28
SeqSet(seq) == {seq[i] : i \in 1..Len(seq)}

\* the components a parent of the set returns from Children()
DeclaredBy(cs) == UNION {SeqSet(Children(c)) : c \in cs}

\* how often the mount hook of k ran during the call
MountCount(k) == Cardinality({x \in 1..Len(hookLog) : hookLog[x] = <<"mount", k>>})

\* C28: a successful Render or Append invokes the mount hook of each
\* component of the rendered tree (the component, the children collected
\* from its markup, the children returned by Children()) exactly once
C28_MountedExactlyOnce ==
    LET Once(collected) ==
          \A k \in {lastOp.arg} \cup collected \cup DeclaredBy({lastOp.arg} \cup collected) :
              IsMountable(k) => MountCount(k) = 1
    IN (lastOp.op \in {"Render", "Append"} /\ lastOp.err = "")
           => Once(SeqSet(Serialized.comps))

\* the statement for the children that are either collected from the markup
\* or returned by Children(), but not both
C28_MountedExactlyOnce_OneWay ==
    LET Once(collected) ==
          \A k \in {lastOp.arg} \cup collected \cup DeclaredBy({lastOp.arg} \cup collected) :
              (IsMountable(k) /\ ~(k \in collected /\ k \in DeclaredBy({lastOp.arg} \cup collected)))
                  => MountCount(k) = 1
    IN (lastOp.op \in {"Render", "Append"} /\ lastOp.err = "")
           => Once(SeqSet(Serialized.comps))

\* a Render whose tree holds a declared child and collected children
C28_TreeCase ==
    /\ lastOp.op = "Render" /\ lastOp.arg = "P" /\ lastOp.err = ""
    /\ MountCount("D") = 1 /\ MountCount("A") = 1 /\ MountCount("P") = 1

\* ---------------------------------------------------------------- C29
\* the mounted table maps the id of c to the instance c
TrackedAs(s, c) ==
    \E m \in 1..Len(s.mountedComponents) :
        s.mountedComponents[m].id = ObjID(c) /\ s.mountedComponents[m].comp = c

\* C29: after a successful Render or Append of c the mounted table maps c's
\* id to c itself, so that a following Update re-renders c
C29_TableMapsIdToRendered ==
    LET c == Cur IN
    (lastOp.op \in {"Render", "Append"} /\ lastOp.err = "")
        => /\ TrackedAs(c, lastOp.arg)
           /\ ResolveTracked(c, lastOp.arg) = lastOp.arg

\* the statement for an id that was not in the mounted table before the call
C29_TableMapsIdToRendered_NewId ==
    LET c == Cur IN
    (/\ lastOp.op \in {"Render", "Append"} /\ lastOp.err = ""
     /\ ~ \E m \in 1..Len(pre.mountedComponents) :
              pre.mountedComponents[m].id = ObjID(lastOp.arg))
        => /\ TrackedAs(c, lastOp.arg)
           /\ ResolveTracked(c, lastOp.arg) = lastOp.arg

\* an instance is appended under an id that is new to the mounted table
C29_NewIdCase ==
    /\ lastOp.op = "Append" /\ lastOp.arg = "PE" /\ lastOp.err = ""
    /\ TrackedAs(Cur, "PE")

\* ---------------------------------------------------------------- C30
\* C30: between the calls of the driver, also after a call that returned an
\* error, the pending-event list is empty
C30_NoPendingBetweenCalls == pendingEvents = <<>>

\* the statement for the calls that returned no error
C30_NoPendingBetweenCalls_AfterSuccess ==
    (lastOp.op \in {"Render", "Append", "Update"} /\ lastOp.err = "") => pendingEvents = <<>>

\* a successful call that serialized bindings
C30_SuccessCase ==
    /\ lastOp.op \in {"Render", "Append", "Update"} /\ lastOp.err = ""
    /\ RootMarkup(pre, lastOp.arg) # <<>>
    /\ Len(eventFuncs) > Len(pre.eventFuncs)

\* ---------------------------------------------------------------- C31
\* no mount, unmount or update hook ran during the call
NoHookInvoked ==
    \A x \in 1..Len(hookLog) : hookLog[x][1] \notin {"mount", "unmount", "update"}

\* the mounted table, the children table, the listener registry and the
\* element cache are as they were before the call
RegistryAsBefore ==
    /\ mountedComponents = pre.mountedComponents
    /\ childrenMap = pre.childrenMap
    /\ eventFuncs = pre.eventFuncs
    /\ componentListeners = pre.componentListeners
    /\ listeners = pre.listeners
    /\ released = pre.released
    /\ elementCache = pre.elementCache

\* C31: an Update that returns the not-found error invokes no hook and leaves
\* the mounted table, the children table, the listener registry and the
\* element cache as they were before the call
C31_FailedUpdateChangesNothing ==
    (lastOp.op = "Update" /\ lastOp.err = "component element not found")
        => NoHookInvoked /\ RegistryAsBefore

\* the statement for a component that has no entry in the children table and
\* no listener list of its own, as one that was never rendered
C31_FailedUpdateChangesNothing_NoEntries ==
    (/\ lastOp.op = "Update" /\ lastOp.err = "component element not found"
     /\ ChildIDs(pre, ObjID(lastOp.arg)) = {}
     /\ \A i \in 1..Len(pre.childrenMap) : pre.childrenMap[i].parentID # ObjID(lastOp.arg)
     /\ \A i \in 1..Len(pre.componentListeners) :
            pre.componentListeners[i].id # ObjID(lastOp.arg))
        => NoHookInvoked /\ RegistryAsBefore

\* a failed Update of a component whose markup binds events
C31_FailedCase ==
    /\ lastOp.op = "Update" /\ lastOp.err = "component element not found"
    /\ lastOp.arg = "Q" /\ pre.eventFuncs # <<>>

\* ---------------------------------------------------------------- C32
\* the callbacks released during the call
ReleasedNow == {released[x] : x \in (Len(pre.released) + 1)..Len(released)}

\* C32: a cleanup releases only callbacks attributed to the id it cleans up;
\* an orphaned callback, registered outside any component, is never released,
\* also when it was registered for the element and event of a component
C32_OrphanStaysRegistered ==
    \A fn \in unowned : Count(released, fn) = 0

\* the weaker statement: a released callback had its key in the key list of
\* some id before the call or was registered during the call
C32_ReleasedKeyWasListed ==
    \A fn \in ReleasedNow :
        \/ fn >= pre.nextFn
        \/ \E i \in 1..Len(pre.eventFuncs) :
               /\ pre.eventFuncs[i].fn = fn
               /\ \E c \in 1..Len(pre.componentListeners) :
                      \E k \in 1..Len(pre.componentListeners[c].keys) :
                          pre.componentListeners[c].keys[k] = pre.eventFuncs[i].key

\* a call released a callback that was registered before it
C32_ReleaseCase ==
    \E fn \in ReleasedNow : fn < pre.nextFn

\* ---------------------------------------------------------------- C33
\* how often the unmount hook of k ran during the call
UnmountCount(k) == Cardinality({x \in 1..Len(hookLog) : hookLog[x] = <<"unmount", k>>})

\* the tracked instances of the ids filed under id in the children table
TableKids(s, id) ==
    {s.mountedComponents[m].comp :
        m \in {x \in 1..Len(s.mountedComponents) :
                  s.mountedComponents[x].id \in ChildIDs(s, id)}}

\* one level further down a subtree: through Children() and through the
\* children table
Below1(s, cs) == cs \cup DeclaredBy(cs) \cup UNION {TableKids(s, ObjID(c)) : c \in cs}

\* the components of the subtree of cs (trees of the universe are at most
\* three levels deep)
Subtree(s, cs) == Below1(s, Below1(s, Below1(s, cs)))

\* C33: in one unmount or cleanup of a subtree the unmount hook of each
\* component of the subtree is invoked exactly once, also for a component
\* reachable through Children() and through the children table, and no hook
\* runs twice in any call
C33_UnmountedExactlyOnce ==
    LET Once(cs) == \A k \in cs : IsUnmountable(k) => UnmountCount(k) = 1
    IN /\ \A k \in Objs : UnmountCount(k) <= 1
       /\ lastOp.op = "Unmount" => Once(Subtree(pre, {lastOp.arg}))
       /\ lastOp.op = "Update" =>
              Once(Subtree(pre, TableKids(pre, ObjID(lastOp.arg))))

\* a cleanup of the children of R: G is filed under R, tracked, and returned
\* by Children() of N, which is filed under R and tracked as well
C33_Witness ==
    /\ lastOp.op = "Update" /\ lastOp.arg = "R"
    /\ {"N", "G"} \subseteq TableKids(pre, "R")
    /\ "G" \in DeclaredBy({"N"})
    /\ UnmountCount("G") = 1

\* a cleanup whose children list names an id that is no longer tracked
C33_UntrackedListed ==
    /\ lastOp.op = "Update" /\ lastOp.arg = "P"
    /\ \E id \in ChildIDs(pre, "P") :
           \A m \in 1..Len(pre.mountedComponents) : pre.mountedComponents[m].id # id
    /\ TableKids(pre, "P") # {}

\* ---------------------------------------------------------------- C34
\* C34: for every element id and event name, splitting the key
\* id + "::" + name recovers the id and the event name, so that the listener
\* is detached with the event name it was registered with
C34_SplitRecoversKey ==
    keyParts = << keyCall.id, keyCall.name >>

\* the statement for ids that hold no ':'
C34_SplitRecoversKey_NoColonInId ==
    (\A i \in 1..Len(keyCall.id) : keyCall.id[i] # ":")
        => keyParts = << keyCall.id, keyCall.name >>

\* a key of a non-empty id without ':' and an event name that holds a ':'
C34_NoColonCase ==
    /\ keyCall.id = <<"a", "a">>
    /\ keyCall.name = <<"a", ":">>
    /\ keyParts = << <<"a", "a">>, <<"a", ":">> >>

\* C35: a cleanup walk (unmountRecursive, cleanupChildren with the
\* cleanupListeners calls they make), started on registry tables of any
\* content and run with hooks that only log, comes to its end: the stack of
\* call frames is eventually empty
C35_WalkTerminates == <>(stack = <<>>)

\* the walk started on a children table whose lists reference each other
ListsCycle(cm) ==
    \E a, b \in 1..Len(cm) :
        /\ cm[a].parentID # cm[b].parentID
        /\ cm[b].parentID \in Range(cm[a].childIDs)
        /\ cm[a].parentID \in Range(cm[b].childIDs)

\* an unmount walk over a cyclic children table with both components
\* tracked has ended
C35_CyclicCase ==
    /\ stack = <<>>
    /\ lastOp.op = "unmountRecursive"
    /\ ListsCycle(pre.childrenMap)
    /\ WalkIDs \subseteq {pre.mountedComponents[i].id : i \in 1..Len(pre.mountedComponents)}
    /\ Len(hookLog) >= 2

\* ids the helpers are called with: a component with children and
\* listeners, an element component, a nested child, and an id that
\* resolves to no node
HelperIDs == {"P", "Q", "G", "void"}

\* C36: cleanupListeners, cleanupChildren, untrackComponent and
\* removeFromElementCache, called in any reachable state with an id that
\* has no entry in the table the helper searches, return the state they
\* were given
C36_AbsentIdIsNoOp ==
    LET s == Cur
    IN \A id \in HelperIDs :
           /\ (\A i \in 1..Len(componentListeners) : componentListeners[i].id # id)
                  => cleanupListeners(s, id) = s
           /\ (\A i \in 1..Len(childrenMap) : childrenMap[i].parentID # id)
                  => cleanupChildren(s, id) = s
           /\ (\A i \in 1..Len(mountedComponents) : mountedComponents[i].id # id)
                  => untrackComponent(s, id) = s
           /\ (\A i \in 1..Len(elementCache) : elementCache[i].id # id)
                  => removeFromElementCache(s, id) = s

\* every table holds an entry, and none of them holds one for Q
C36_AbsentCase ==
    /\ componentListeners # <<>>
    /\ childrenMap # <<>>
    /\ mountedComponents # <<>>
    /\ elementCache # <<>>
    /\ eventFuncs # <<>>
    /\ \A i \in 1..Len(componentListeners) : componentListeners[i].id # "Q"
    /\ \A i \in 1..Len(childrenMap) : childrenMap[i].parentID # "Q"
    /\ \A i \in 1..Len(mountedComponents) : mountedComponents[i].id # "Q"
    /\ \A i \in 1..Len(elementCache) : elementCache[i].id # "Q"

\* no two entries of the table carry the same value in the field
OnePerId(ids) == \A i, j \in 1..Len(ids) : ids[i] = ids[j] => i = j

\* C37: in every reachable state the element cache, the children table
\* and the listener-list table hold at most one entry per id
C37_OneEntryPerId ==
    /\ OnePerId([i \in 1..Len(elementCache) |-> elementCache[i].id])
    /\ OnePerId([i \in 1..Len(childrenMap) |-> childrenMap[i].parentID])
    /\ OnePerId([i \in 1..Len(componentListeners) |-> componentListeners[i].id])

\* a component was rendered a second time: the call found the entry of
\* one of its elements in the element cache and registered a callback on
\* it, and found the entry of the component in the children table and in
\* the listener-list table
C37_RepeatCase ==
    /\ lastOp.op = "Render"
    /\ lastOp.err = ""
    /\ \E i \in 1..Len(pre.elementCache) :
           Cardinality({x \in 1..Len(eventFuncs) : eventFuncs[x].key[1] = pre.elementCache[i].id})
               > Cardinality({x \in 1..Len(pre.eventFuncs) :
                                 pre.eventFuncs[x].key[1] = pre.elementCache[i].id})
    /\ \E i \in 1..Len(pre.childrenMap) : pre.childrenMap[i].parentID = ObjID(lastOp.arg)
    /\ \E i \in 1..Len(pre.componentListeners) :
           /\ pre.componentListeners[i].id = ObjID(lastOp.arg)
           /\ \E j \in 1..Len(componentListeners) :
                  /\ componentListeners[j].id = ObjID(lastOp.arg)
                  /\ Len(componentListeners[j].keys) > Len(pre.componentListeners[i].keys)

====
